---- MODULE Spec2Model ----
(***************************************************************************)
(* Definition / reference resolution engines of vscode-sql-fuzzy-outliner: *)
(* the GraphQL document index (GraphQLDefinitionProvider), its resolver,   *)
(* the workspace reference scan (GraphQLReferenceProvider) and the         *)
(* fallback orchestrator (GraphQLFallbackProvider); the SQL resolver       *)
(* (SQLDefinitionProvider), scanner (SQLReferenceProvider) and fallback    *)
(* orchestrator (SQLFallbackProvider).                                     *)
(*                                                                         *)
(* A document text is a sequence of lines, a line a sequence of tokens;    *)
(* tokens of a line are separated by one blank, lines by one line break.   *)
(* Offsets are character offsets into that rendering.                      *)
(***************************************************************************)
EXTENDS Integers, Sequences, FiniteSets, TLC

(***************************************************************************)
(* Bounds                                                                  *)
(***************************************************************************)
\* how many texts of the catalogue AllTexts the files a_graphql and b_graphql take
NumTexts == 5
\* how many texts of the catalogue the file c_gql takes
NumTextsWide == 1
\* how many texts of the SQL catalogue the file schema_sql takes
NumSqlTexts == 2
\* how many texts of the catalogue the files a_graphql and b_graphql take when
\* only the index is exercised
NumIndexTexts == 8
\* how many texts of the catalogue, besides the one with a query operation,
\* the files a_graphql and b_graphql take when the token of the call is exercised
NumTokenTexts == 3
\* how many texts of the catalogue, besides the one with a longer word, the
\* files a_graphql and b_graphql take when references are searched
NumRefTexts == 2
\* how many texts of the SQL catalogue the file schema_sql takes when the SQL
\* providers are exercised alone
NumSqlWideTexts == 4
\* how many texts of the catalogue the files a_graphql and b_graphql take when
\* the outline is requested
NumOutlineTexts == 4

(***************************************************************************)
(* Text catalogue                                                          *)
(***************************************************************************)
TUser == << <<"type", "User", "{", "id", ":", "ID", "name", ":", "String", "}">> >>
TQuery == << <<"type", "Query", "{", "user", ":", "User", "}">> >>
TFrag == << <<"fragment", "User", "on", "Query", "{", "user", "id", "}">> >>
TBad == << <<"type", "User", "{">> >>
TShadow == << <<"fragment", "user", "on", "User", "{", "id", "}">> >>
TEnum == << <<"enum", "Role", "{", "id", "}">>, <<"query", "{", "id", "}">> >>
TDup == << <<"type", "User", "{", "id", ":", "ID", "}">>,
           <<"type", "User", "{", "name", ":", "String", "id", ":", "ID", "}">>,
           <<"fragment", "F", "on", "User", "{", "id", "}">>,
           <<"fragment", "F", "on", "User", "{", "name", "}">> >>
TKinds == << <<"interface", "Node", "{", "id", ":", "ID", "}">>,
             <<"input", "Filter", "{", "name", ":", "String", "}">>,
             <<"scalar", "Date">>,
             <<"union", "Any", "=", "User", "|", "Query">> >>
TEmpty == << <<>> >>
TWords == << <<"type", "User", "{", "user", ":", "User2", "}">> >>

GraphQLTexts == <<TUser, TBad, TQuery, TFrag, TShadow, TEmpty, TEnum, TDup, TKinds, TWords>>

SUsers == << <<"CREATE", "TABLE", "users", "(", ")", ";">>, <<"users", ";">> >>
SComment == << <<"--", "users">>, <<"orders", ";">> >>
SPrefix == << <<"create", "table", "users2", "(", ")", ";">>, <<"USERS", ";">> >>

SCommented == << <<"--", "CREATE", "TABLE", "users", "(", ")", ";">>,
                 <<"CREATE", "TABLE", "users", "(", ")", ";">>,
                 <<"users", ";", "--", "users">> >>

SqlCatalogue == <<SUsers, SComment, SPrefix, SCommented>>

AllTexts == GraphQLTexts \o SqlCatalogue

Min(a, b) == IF a < b THEN a ELSE b

\* a text is named by its place in the catalogue
TextIds == 1..Len(AllTexts)

TextsUpTo(n) == 1..Min(n, Len(GraphQLTexts))

\* the name of a catalogue text
TextId(text) == CHOOSE t \in TextIds : AllTexts[t] = text

Texts == TextsUpTo(NumTexts)

SqlTexts == {Len(GraphQLTexts) + k : k \in 1..Min(NumSqlTexts, Len(SqlCatalogue))}

SqlWideTexts == {Len(GraphQLTexts) + k : k \in 1..Min(NumSqlWideTexts, Len(SqlCatalogue))}

(***************************************************************************)
(* vscode.TextDocument: offsets, positions, words                          *)
(***************************************************************************)
Punct == {"{", "}", ":", "=", "|", "(", ")", ";", "--", ","}

IsWord(s) == s \notin Punct

RECURSIVE LineLenFrom(_, _)
LineLenFrom(line, j) ==
  IF j > Len(line) THEN 0
  ELSE Len(line[j]) + (IF j < Len(line) THEN 1 ELSE 0) + LineLenFrom(line, j + 1)

LineLen(line) == LineLenFrom(line, 1)

\* column of token j of a line
RECURSIVE TokCol(_, _)
TokCol(line, j) == IF j <= 1 THEN 0 ELSE TokCol(line, j - 1) + Len(line[j - 1]) + 1

\* offset of the first character of line l (1-based index into the text)
RECURSIVE LineStart(_, _)
LineStart(text, l) ==
  IF l <= 1 THEN 0 ELSE LineStart(text, l - 1) + LineLen(text[l - 1]) + 1

TextLen(text) == LineStart(text, Len(text)) + LineLen(text[Len(text)])

\* document.positionAt(offset)
positionAt(text, offset) ==
  LET o == IF offset < 0 THEN 0 ELSE Min(offset, TextLen(text))
      l == CHOOSE k \in 1..Len(text) :
             /\ LineStart(text, k) <= o
             /\ \A m \in 1..Len(text) : LineStart(text, m) <= o => m <= k
  IN  [line |-> l - 1, character |-> o - LineStart(text, l)]

\* document.offsetAt(position)
offsetAt(text, pos) ==
  LET l == Min(pos.line, Len(text) - 1) + 1
  IN  LineStart(text, l) + Min(pos.character, LineLen(text[l]))

\* every position of a text
Positions(text) ==
  UNION {{[line |-> l - 1, character |-> c] : c \in 0..LineLen(text[l])} : l \in 1..Len(text)}

\* document.getWordRangeAtPosition(position): the word touching the position
getWordRangeAtPosition(text, pos) ==
  LET l == pos.line + 1
      hit == {j \in 1..Len(text[l]) :
                /\ IsWord(text[l][j])
                /\ TokCol(text[l], j) <= pos.character
                /\ pos.character <= TokCol(text[l], j) + Len(text[l][j])}
  IN  IF l > Len(text) \/ hit = {} THEN [found |-> FALSE]
      ELSE LET j == CHOOSE k \in hit : TRUE
           IN  [found |-> TRUE,
                word |-> text[l][j],
                range |-> [start |-> [line |-> pos.line, character |-> TokCol(text[l], j)],
                           end |-> [line |-> pos.line,
                                    character |-> TokCol(text[l], j) + Len(text[l][j])]]]

(***************************************************************************)
(* graphql.parse: lexer                                                    *)
(***************************************************************************)
LexLine(text, l) ==
  [j \in 1..Len(text[l]) |->
     [s |-> text[l][j],
      start |-> LineStart(text, l) + TokCol(text[l], j),
      end |-> LineStart(text, l) + TokCol(text[l], j) + Len(text[l][j])]]

RECURSIVE LexFrom(_, _)
LexFrom(text, l) ==
  IF l > Len(text) THEN << >> ELSE LexLine(text, l) \o LexFrom(text, l + 1)

Lex(text) == LexFrom(text, 1)

(***************************************************************************)
(* graphql.parse: the grammar of top-level definitions.  A definition node *)
(* carries its kind, its name token, its member field name tokens (only    *)
(* the kinds that have a `fields` property), its type condition (fragment) *)
(* and its source span loc.start .. loc.end.                               *)
(***************************************************************************)
NoTok == [s |-> "", start |-> 0 - 1, end |-> 0 - 1]

TokAt(toks, i) == IF i >= 1 /\ i <= Len(toks) THEN toks[i].s ELSE "<EOF>"

IsNameAt(toks, i) == i >= 1 /\ i <= Len(toks) /\ IsWord(toks[i].s)

ParseFail == [ok |-> FALSE, names |-> << >>, next |-> 0]

\* Name ":" Name, one or more, then "}"
RECURSIVE ParseFields(_, _, _)
ParseFields(toks, i, acc) ==
  IF TokAt(toks, i) = "}" THEN
    IF Len(acc) > 0 THEN [ok |-> TRUE, names |-> acc, next |-> i + 1] ELSE ParseFail
  ELSE IF IsNameAt(toks, i) /\ TokAt(toks, i + 1) = ":" /\ IsNameAt(toks, i + 2) THEN
    ParseFields(toks, i + 3, Append(acc, toks[i]))
  ELSE ParseFail

\* Name, one or more, then "}" (enum values, selection set)
RECURSIVE ParseNames(_, _, _)
ParseNames(toks, i, acc) ==
  IF TokAt(toks, i) = "}" THEN
    IF Len(acc) > 0 THEN [ok |-> TRUE, names |-> acc, next |-> i + 1] ELSE ParseFail
  ELSE IF IsNameAt(toks, i) THEN ParseNames(toks, i + 1, Append(acc, toks[i]))
  ELSE ParseFail

\* Name ("|" Name)*  (union members)
RECURSIVE ParseMembers(_, _, _)
ParseMembers(toks, i, acc) ==
  IF ~IsNameAt(toks, i) THEN ParseFail
  ELSE IF TokAt(toks, i + 1) = "|" THEN ParseMembers(toks, i + 2, Append(acc, toks[i]))
  ELSE [ok |-> TRUE, names |-> Append(acc, toks[i]), next |-> i + 1]

FieldKinds == [type |-> "ObjectTypeDefinition",
               interface |-> "InterfaceTypeDefinition",
               input |-> "InputObjectTypeDefinition"]

Node(kind, name, hasFields, fields, cond, firstTok, lastTok) ==
  [kind |-> kind, name |-> name, hasFields |-> hasFields, fields |-> fields,
   typeCondition |-> cond, start |-> firstTok.start, end |-> lastTok.end]

DefFail == [ok |-> FALSE, def |-> Node("", NoTok, FALSE, << >>, "", NoTok, NoTok), next |-> 0]

DefOk(def, next) == [ok |-> TRUE, def |-> def, next |-> next]

ParseDefinition(toks, i) ==
  LET k == TokAt(toks, i) IN
  IF k \in {"type", "interface", "input"} THEN
    IF ~IsNameAt(toks, i + 1) THEN DefFail
    ELSE IF TokAt(toks, i + 2) = "{" THEN
      LET f == ParseFields(toks, i + 3, << >>) IN
      IF f.ok THEN DefOk(Node(FieldKinds[k], toks[i + 1], TRUE, f.names, "",
                              toks[i], toks[f.next - 1]), f.next)
      ELSE DefFail
    ELSE DefOk(Node(FieldKinds[k], toks[i + 1], TRUE, << >>, "", toks[i], toks[i + 1]), i + 2)
  ELSE IF k = "enum" THEN
    IF ~IsNameAt(toks, i + 1) THEN DefFail
    ELSE IF TokAt(toks, i + 2) = "{" THEN
      LET v == ParseNames(toks, i + 3, << >>) IN
      IF v.ok THEN DefOk(Node("EnumTypeDefinition", toks[i + 1], FALSE, << >>, "",
                              toks[i], toks[v.next - 1]), v.next)
      ELSE DefFail
    ELSE DefOk(Node("EnumTypeDefinition", toks[i + 1], FALSE, << >>, "",
                    toks[i], toks[i + 1]), i + 2)
  ELSE IF k = "scalar" THEN
    IF ~IsNameAt(toks, i + 1) THEN DefFail
    ELSE DefOk(Node("ScalarTypeDefinition", toks[i + 1], FALSE, << >>, "",
                    toks[i], toks[i + 1]), i + 2)
  ELSE IF k = "union" THEN
    IF ~IsNameAt(toks, i + 1) THEN DefFail
    ELSE IF TokAt(toks, i + 2) = "=" THEN
      LET m == ParseMembers(toks, i + 3, << >>) IN
      IF m.ok THEN DefOk(Node("UnionTypeDefinition", toks[i + 1], FALSE, << >>, "",
                              toks[i], toks[m.next - 1]), m.next)
      ELSE DefFail
    ELSE DefOk(Node("UnionTypeDefinition", toks[i + 1], FALSE, << >>, "",
                    toks[i], toks[i + 1]), i + 2)
  ELSE IF k = "fragment" THEN
    IF /\ IsNameAt(toks, i + 1) /\ TokAt(toks, i + 1) # "on"
       /\ TokAt(toks, i + 2) = "on" /\ IsNameAt(toks, i + 3)
       /\ TokAt(toks, i + 4) = "{"
    THEN LET sel == ParseNames(toks, i + 5, << >>) IN
         IF sel.ok THEN DefOk(Node("FragmentDefinition", toks[i + 1], FALSE, << >>,
                                   toks[i + 3].s, toks[i], toks[sel.next - 1]), sel.next)
         ELSE DefFail
    ELSE DefFail
  ELSE IF k \in {"query", "mutation", "subscription"} THEN
    LET named == IsNameAt(toks, i + 1)
        b == IF named THEN i + 2 ELSE i + 1
    IN  IF TokAt(toks, b) = "{" THEN
          LET sel == ParseNames(toks, b + 1, << >>) IN
          IF sel.ok THEN DefOk(Node("OperationDefinition",
                                    IF named THEN toks[i + 1] ELSE NoTok, FALSE, << >>, "",
                                    toks[i], toks[sel.next - 1]), sel.next)
          ELSE DefFail
        ELSE DefFail
  ELSE IF k = "{" THEN
    LET sel == ParseNames(toks, i + 1, << >>) IN
    IF sel.ok THEN DefOk(Node("OperationDefinition", NoTok, FALSE, << >>, "",
                              toks[i], toks[sel.next - 1]), sel.next)
    ELSE DefFail
  ELSE DefFail

RECURSIVE ParseDefinitions(_, _, _)
ParseDefinitions(toks, i, acc) ==
  IF i > Len(toks) THEN [ok |-> TRUE, definitions |-> acc]
  ELSE LET r == ParseDefinition(toks, i) IN
       IF r.ok THEN ParseDefinitions(toks, r.next, Append(acc, r.def))
       ELSE [ok |-> FALSE, definitions |-> << >>]

\* parse(text): a document needs at least one definition; ok = FALSE is the
\* GraphQLError thrown on a syntax error
parseText(text) ==
  LET toks == Lex(text) IN
  IF Len(toks) = 0 THEN [ok |-> FALSE, definitions |-> << >>]
  ELSE ParseDefinitions(toks, 1, << >>)

\* the parse of every catalogue text, computed once
ParseTable == [t \in TextIds |-> parseText(AllTexts[t])]

\* parse(document.getText()) of the text named t
parse(t) == ParseTable[t]

LexTable == [t \in TextIds |-> Lex(AllTexts[t])]

\* every token of the catalogue
Words == UNION {{LexTable[t][i].s : i \in 1..Len(LexTable[t])} : t \in TextIds}

\* the cursor positions of a query: the two ends of every token, and the origin
CursorPositions(text) ==
  {[line |-> 0, character |-> 0]} \cup
  UNION {UNION {{[line |-> l - 1, character |-> TokCol(text[l], j)],
                 [line |-> l - 1, character |-> TokCol(text[l], j) + Len(text[l][j])]} :
                j \in 1..Len(text[l])} : l \in 1..Len(text)}

PositionsTable == [t \in TextIds |-> CursorPositions(AllTexts[t])]

WordRangeTable ==
  [t \in TextIds |-> [pos \in Positions(AllTexts[t]) |-> getWordRangeAtPosition(AllTexts[t], pos)]]

\* document.getWordRangeAtPosition(position) in the text named t
wordRangeAt(t, pos) == WordRangeTable[t][pos]

OffsetTable == [t \in TextIds |-> [pos \in Positions(AllTexts[t]) |-> offsetAt(AllTexts[t], pos)]]

(***************************************************************************)
(* Documents of the workspace                                              *)
(***************************************************************************)
DocInfo == [a_graphql |-> [languageId |-> "graphql", ext |-> ".graphql"],
            b_graphql |-> [languageId |-> "graphql", ext |-> ".graphql"],
            c_gql     |-> [languageId |-> "plaintext", ext |-> ".gql"],
            notes_txt |-> [languageId |-> "plaintext", ext |-> ".txt"]]

Docs == DOMAIN DocInfo

\* vscode.workspace.findFiles('**/*.{graphql,gql,graphqls}')
findFiles == <<"a_graphql", "b_graphql", "c_gql">>

\* the texts a document can hold
DocTexts(d) ==
  IF d = "c_gql" THEN TextsUpTo(NumTextsWide)
  ELSE IF d = "notes_txt" THEN {TextId(TQuery)}
  ELSE Texts

\* the texts a document can hold when only the index is exercised
IndexTexts(d) ==
  IF d \in {"a_graphql", "b_graphql"} THEN TextsUpTo(NumIndexTexts) ELSE DocTexts(d)

\* the texts a document can hold when the token of the call is exercised
TokenTexts(d) ==
  IF d \in {"a_graphql", "b_graphql"} THEN TextsUpTo(NumTokenTexts) \cup {TextId(TEnum)}
  ELSE DocTexts(d)

\* the texts a document can hold when references are searched
RefTexts(d) ==
  IF d \in {"a_graphql", "b_graphql"} THEN TextsUpTo(NumRefTexts) \cup {TextId(TWords)}
  ELSE DocTexts(d)

\* the texts a document can hold when the outline is requested
OutlineTexts(d) ==
  IF d \in {"a_graphql", "b_graphql"} THEN TextsUpTo(NumOutlineTexts) ELSE DocTexts(d)

\* isGraphQLFile(document)
\* (variant of isGraphQLFile that accepts every document)
isGraphQLFileAnyDocument(d) == TRUE

isGraphQLFile(d) ==
  \/ DocInfo[d].languageId = "graphql"
  \/ DocInfo[d].ext = ".graphql"
  \/ DocInfo[d].ext = ".gql"
  \/ DocInfo[d].ext = ".graphqls"

(***************************************************************************)
(* Values: maps, locations, nullable lists                                 *)
(***************************************************************************)
Range(t, from, to) ==
  [start |-> positionAt(AllTexts[t], from), end |-> positionAt(AllTexts[t], to)]

Location(uri, range) == [uri |-> uri, range |-> range]

NoLocation == Location("", [start |-> [line |-> 0, character |-> 0],
                            end |-> [line |-> 0, character |-> 0]])

\* new Map()
EmptyMap == [k \in {} |-> NoLocation]

\* (variant of MapSet that keeps the value of a present key)
MapSetIfAbsent(m, key, value) ==
  [k \in DOMAIN m \cup {key} |-> IF k \in DOMAIN m THEN m[k] ELSE value]

\* map.set(key, value)
MapSet(m, key, value) == [k \in DOMAIN m \cup {key} |-> IF k = key THEN value ELSE m[k]]

\* map.has(key)
MapHas(m, key) == key \in DOMAIN m

\* a value that is either null or a list
Null == [isNull |-> TRUE, items |-> << >>]

List(items) == [isNull |-> FALSE, items |-> items]

(***************************************************************************)
(* State                                                                   *)
(***************************************************************************)
VARIABLES
  docText,           \* document.getText() of every document
  definitionsCache,  \* the unified cache, a Map in insertion order of its keys
  initPc,            \* initializeCache: 0 awaiting findFiles, i awaiting the open
                     \* of file i, Len(findFiles) + 1 finished, -1 rejected
  last,              \* the call that is returning to the editor, with its result
  lastParsed,        \* per document, the text of its last update that parsed
  providers,         \* the providers constructed: "GraphQL" (activate) or "SQL"
  sqlText,           \* document.getText() of schema_sql
  definitionCache,   \* SQLDefinitionProvider.definitionCache
  referenceCache,    \* SQLReferenceProvider.referenceCache
  typeDefinitionsCache,      \* the three caches of the earlier version of
  fieldDefinitionsCache,     \* GraphQLDefinitionProvider, each a Map from a
  fragmentDefinitionsCache   \* document to a table, in insertion order

vars == <<docText, definitionsCache, initPc, last, lastParsed,
          providers, sqlText, definitionCache, referenceCache,
          typeDefinitionsCache, fieldDefinitionsCache, fragmentDefinitionsCache>>

\* the state of the earlier version of the GraphQL definition provider
earlierVars == <<typeDefinitionsCache, fieldDefinitionsCache, fragmentDefinitionsCache>>

\* the earlier version is constructed, its caches are empty
EarlierEmpty ==
  /\ typeDefinitionsCache = << >>
  /\ fieldDefinitionsCache = << >>
  /\ fragmentDefinitionsCache = << >>

\* the state of the SQL providers
sqlVars == <<providers, sqlText, definitionCache, referenceCache>>

Idle == [op |-> "idle"]

\* lastParsed of a document no update has parsed; otherwise <<t>>
NoText == << >>

(***************************************************************************)
(* Document Index: updateCacheForDocument                                  *)
(***************************************************************************)
TypeKinds == {"ObjectTypeDefinition", "InterfaceTypeDefinition",
              "InputObjectTypeDefinition", "EnumTypeDefinition",
              "UnionTypeDefinition", "ScalarTypeDefinition"}

NewCacheEntry == [typeDefinitions |-> EmptyMap,
                  fieldDefinitions |-> EmptyMap,
                  fragmentDefinitions |-> EmptyMap]

\* for (const field of def.fields) fieldDefinitions.set(`${typeName}.${fieldName}`, ...)
RECURSIVE SetFields(_, _, _, _, _, _)
SetFields(fieldDefinitions, uri, text, typeName, fields, j) ==
  IF j > Len(fields) THEN fieldDefinitions
  ELSE SetFields(MapSet(fieldDefinitions, typeName \o "." \o fields[j].s,
                        Location(uri, Range(text, fields[j].start, fields[j].end))),
                 uri, text, typeName, fields, j + 1)

\* (variant of IndexDefinition that stores the span of the whole definition
\* as the location of a type)
IndexDefinitionWholeNode(cacheEntry, uri, text, def) ==
  IF def.kind \in TypeKinds THEN
    [cacheEntry EXCEPT
       !.typeDefinitions =
          MapSet(@, def.name.s, Location(uri, Range(text, def.start, def.end))),
       !.fieldDefinitions =
          IF def.hasFields THEN SetFields(@, uri, text, def.name.s, def.fields, 1) ELSE @]
  ELSE IF def.kind = "FragmentDefinition" THEN
    [cacheEntry EXCEPT
       !.fragmentDefinitions =
          MapSet(@, def.name.s, Location(uri, Range(text, def.name.start, def.name.end)))]
  ELSE cacheEntry

\* the body of the loop over ast.definitions, for one definition
IndexDefinition(cacheEntry, uri, text, def) ==
  IF def.kind \in TypeKinds THEN
    [cacheEntry EXCEPT
       !.typeDefinitions =
          MapSet(@, def.name.s, Location(uri, Range(text, def.name.start, def.name.end))),
       !.fieldDefinitions =
          IF def.hasFields THEN SetFields(@, uri, text, def.name.s, def.fields, 1) ELSE @]
  ELSE IF def.kind = "FragmentDefinition" THEN
    [cacheEntry EXCEPT
       !.fragmentDefinitions =
          MapSet(@, def.name.s, Location(uri, Range(text, def.name.start, def.name.end)))]
  ELSE cacheEntry

\* for (const def of ast.definitions) ...
RECURSIVE IndexDefinitions(_, _, _, _, _)
IndexDefinitions(cacheEntry, uri, text, definitions, i) ==
  IF i > Len(definitions) THEN cacheEntry
  ELSE IndexDefinitions(IndexDefinition(cacheEntry, uri, text, definitions[i]),
                        uri, text, definitions, i + 1)

\* definitionsCache.has(uri)
CacheHas(cache, uri) == \E i \in 1..Len(cache) : cache[i].uri = uri

\* definitionsCache.get(uri), defined when the key is present
CacheGet(cache, uri) == cache[CHOOSE i \in 1..Len(cache) : cache[i].uri = uri].entry

\* (variant of CacheSet that leaves the stored entry as the only one)
CacheSetAlone(cache, uri, cacheEntry) == <<[uri |-> uri, entry |-> cacheEntry]>>

\* (variant of CacheSet that adds an entry whether or not the key is present)
CacheSetAppend(cache, uri, cacheEntry) ==
  Append(cache, [uri |-> uri, entry |-> cacheEntry])

\* (variant of CacheSet that keeps the entry of a present key)
CacheSetIfAbsent(cache, uri, cacheEntry) ==
  IF \E i \in 1..Len(cache) : cache[i].uri = uri THEN cache
  ELSE Append(cache, [uri |-> uri, entry |-> cacheEntry])

\* definitionsCache.set(uri, cacheEntry): a present key keeps its place
CacheSet(cache, uri, cacheEntry) ==
  IF CacheHas(cache, uri)
  THEN [i \in 1..Len(cache) |->
          IF cache[i].uri = uri THEN [uri |-> uri, entry |-> cacheEntry] ELSE cache[i]]
  ELSE Append(cache, [uri |-> uri, entry |-> cacheEntry])

\* the tables of every document and catalogue text, computed once
EntryTable ==
  [uri \in Docs |-> [t \in TextIds |->
     IndexDefinitions(NewCacheEntry, uri, t, parse(t).definitions, 1)]]

\* (variant of StoreEntry: the update writes into the tables the slot holds)
StoreEntryMerged(cache, uri, text) ==
  CacheSet(cache, uri,
           IndexDefinitions(IF CacheHas(cache, uri) THEN CacheGet(cache, uri) ELSE NewCacheEntry,
                            uri, text, parse(text).definitions, 1))

\* what the update stores when the text parses
StoreEntry(cache, uri, text) == CacheSet(cache, uri, EntryTable[uri][text])

\* (variant of OnParseError: the failed update deletes the slot)
OnParseErrorDeletes(cache, uri) == SelectSeq(cache, LAMBDA e : e.uri # uri)

\* (variant of OnParseError: the failed update clears the slot)
OnParseErrorClears(cache, uri) == CacheSet(cache, uri, NewCacheEntry)

\* what the update does when parse throws
OnParseError(cache, uri) == cache

\* the slot of a document, or its absence
SlotIn(cache, uri) ==
  IF CacheHas(cache, uri) THEN [present |-> TRUE, entry |-> CacheGet(cache, uri)]
  ELSE [present |-> FALSE, entry |-> NewCacheEntry]

updateCacheForDocument(cache, uri, text) ==
  IF ~isGraphQLFile(uri) THEN cache
  ELSE LET ast == parse(text) IN
       IF ~ast.ok THEN OnParseError(cache, uri)
       ELSE StoreEntry(cache, uri, text)

\* the ghost record of the last text an update of the document parsed
NoteParsed(lp, uri, text) ==
  IF isGraphQLFile(uri) /\ parse(text).ok THEN [lp EXCEPT ![uri] = <<text>>] ELSE lp

(***************************************************************************)
(* Declaration Resolver                                                    *)
(***************************************************************************)
\* (variant of SearchOthers: the loop stops at the first file that matches)
RECURSIVE SearchOthersFirstOnly(_, _, _, _, _)
SearchOthersFirstOnly(cache, table, key, currentUri, i) ==
  IF i > Len(cache) THEN << >>
  ELSE IF cache[i].uri # currentUri /\ MapHas(cache[i].entry[table], key)
  THEN <<cache[i].entry[table][key]>>
  ELSE SearchOthersFirstOnly(cache, table, key, currentUri, i + 1)

\* the loop over the other files of the cache, in Map order
RECURSIVE SearchOthers(_, _, _, _, _)
SearchOthers(cache, table, key, currentUri, i) ==
  IF i > Len(cache) THEN << >>
  ELSE (IF cache[i].uri # currentUri /\ MapHas(cache[i].entry[table], key)
        THEN <<cache[i].entry[table][key]>> ELSE << >>)
       \o SearchOthers(cache, table, key, currentUri, i + 1)

\* same file first, then the other files
SameFileFirst(cache, table, key, currentUri) ==
  IF CacheHas(cache, currentUri) /\ MapHas(CacheGet(cache, currentUri)[table], key)
  THEN List(<<CacheGet(cache, currentUri)[table][key]>>)
  ELSE LET locations == SearchOthers(cache, table, key, currentUri, 1) IN
       IF Len(locations) > 0 THEN List(locations) ELSE Null

\* (variant of findTypeDefinition: no early return for the current file)
findTypeDefinitionAllFiles(cache, typeName, currentUri) ==
  LET locations == SearchOthers(cache, "typeDefinitions", typeName, "", 1) IN
  IF Len(locations) > 0 THEN List(locations) ELSE Null

findTypeDefinition(cache, typeName, currentUri) ==
  SameFileFirst(cache, "typeDefinitions", typeName, currentUri)

\* (variant of findFragmentDefinition: no early return for the current file)
findFragmentDefinitionAllFiles(cache, fragmentName, currentUri) ==
  LET locations == SearchOthers(cache, "fragmentDefinitions", fragmentName, "", 1) IN
  IF Len(locations) > 0 THEN List(locations) ELSE Null

findFragmentDefinition(cache, fragmentName, currentUri) ==
  SameFileFirst(cache, "fragmentDefinitions", fragmentName, currentUri)

\* the first top-level definition whose span contains the offset decides
RECURSIVE ParentOf(_, _, _)
ParentOf(definitions, offset, i) ==
  IF i > Len(definitions) THEN [found |-> FALSE, name |-> ""]
  ELSE LET def == definitions[i] IN
       IF def.start <= offset /\ offset <= def.end /\ def.kind = "FragmentDefinition"
       THEN [found |-> TRUE, name |-> def.typeCondition]
       ELSE IF def.start <= offset /\ offset <= def.end /\ def.kind \in TypeKinds
       THEN [found |-> TRUE, name |-> def.name.s]
       ELSE ParentOf(definitions, offset, i + 1)

getParentTypeName(text, pos) ==
  LET ast == parse(text) IN
  IF ~ast.ok THEN [found |-> FALSE, name |-> ""]
  ELSE ParentOf(ast.definitions, OffsetTable[text][pos], 1)

\* (variant of findFieldDefinition that ignores the enclosing type)
RECURSIVE FieldsNamed(_, _, _)
FieldsNamed(cache, fieldName, i) ==
  IF i > Len(cache) THEN << >>
  ELSE LET fd == cache[i].entry.fieldDefinitions
           keys == {k \in DOMAIN fd : \E n \in Words : k = n \o "." \o fieldName}
       IN  (IF keys = {} THEN << >> ELSE <<fd[CHOOSE k \in keys : TRUE]>>)
           \o FieldsNamed(cache, fieldName, i + 1)

findFieldDefinitionAnyType(cache, fieldName, uri, text, pos) ==
  IF Len(FieldsNamed(cache, fieldName, 1)) > 0 THEN List(FieldsNamed(cache, fieldName, 1))
  ELSE Null

\* (variant of findFieldDefinition that, without an enclosing declaration,
\* looks the field up under every type)
findFieldDefinitionUnscoped(cache, fieldName, uri, text, pos) ==
  LET parent == getParentTypeName(text, pos) IN
  IF ~parent.found
  THEN (IF Len(FieldsNamed(cache, fieldName, 1)) > 0
        THEN List(FieldsNamed(cache, fieldName, 1)) ELSE Null)
  ELSE SameFileFirst(cache, "fieldDefinitions", parent.name \o "." \o fieldName, uri)

findFieldDefinition(cache, fieldName, uri, text, pos) ==
  LET parent == getParentTypeName(text, pos) IN
  IF ~parent.found THEN Null
  ELSE SameFileFirst(cache, "fieldDefinitions", parent.name \o "." \o fieldName, uri)

\* type, then fragment, then field; the first step that finds something returns.
\* steps lists the lookups that ran.
FieldStep(fragmentLocations, cache, word, uri, text, pos) ==
  IF ~fragmentLocations.isNull
  THEN [out |-> fragmentLocations, steps |-> <<"type", "fragment">>]
  ELSE [out |-> findFieldDefinition(cache, word, uri, text, pos),
        steps |-> <<"type", "fragment", "field">>]

FragmentStep(typeLocations, cache, word, uri, text, pos) ==
  IF ~typeLocations.isNull THEN [out |-> typeLocations, steps |-> <<"type">>]
  ELSE FieldStep(findFragmentDefinition(cache, word, uri), cache, word, uri, text, pos)

TypeStep(wordRange, cache, uri, text, pos) ==
  IF ~wordRange.found THEN [out |-> Null, steps |-> << >>]
  ELSE FragmentStep(findTypeDefinition(cache, wordRange.word, uri),
                    cache, wordRange.word, uri, text, pos)

\* (variant of provideDefinition: the fragment lookup comes before the type lookup)
FragmentFirst(fragmentLocations, cache, word, uri, text, pos) ==
  IF ~fragmentLocations.isNull THEN [out |-> fragmentLocations, steps |-> <<"fragment">>]
  ELSE FieldStep(Null, cache, word, uri, text, pos)

provideDefinitionFragmentFirst(cache, uri, text, pos) ==
  IF ~wordRangeAt(text, pos).found THEN [out |-> Null, steps |-> << >>]
  ELSE FragmentFirst(findFragmentDefinition(cache, wordRangeAt(text, pos).word, uri),
                     cache, wordRangeAt(text, pos).word, uri, text, pos)

provideDefinition(cache, uri, text, pos) ==
  TypeStep(wordRangeAt(text, pos), cache, uri, text, pos)

(***************************************************************************)
(* Reference Scanner: GraphQLReferenceProvider.provideReferences           *)
(***************************************************************************)
\* what a token of the catalogue can have before and after a word it contains
Affixes == {"", "2"}

\* the offsets at which the string x occurs in the string s
OccurrencesIn(s, x) ==
  {Len(a) : a \in {pre \in Affixes : \E suf \in Affixes : pre \o x \o suf = s}}

\* the least element of a set of numbers
Least(S) == CHOOSE i \in S : \A j \in S : i <= j

\* the offsets at which \bname\b matches inside the token s: an occurrence of
\* name with no word character before it and none after it (the affixes are
\* word characters)
WholeWordIn(s, name) ==
  {Len(a) : a \in {pre \in Affixes : pre = "" /\ \E suf \in Affixes : suf = "" /\ pre \o name \o suf = s}}

\* (variant of MatchesFrom whose pattern has no \b: it matches inside a longer word)
RECURSIVE MatchesFromAnywhere(_, _, _, _, _)
MatchesFromAnywhere(uri, text, toks, name, i) ==
  IF i > Len(toks) THEN << >>
  ELSE (IF OccurrencesIn(toks[i].s, name) # {}
        THEN <<Location(uri, Range(text, toks[i].start + Least(OccurrencesIn(toks[i].s, name)),
                                   toks[i].start + Least(OccurrencesIn(toks[i].s, name)) + Len(name)))>>
        ELSE << >>)
       \o MatchesFromAnywhere(uri, text, toks, name, i + 1)

\* while ((match = pattern.exec(text)) !== null): the matches of \bname\b with
\* the flag g, in offset order; each spans name.length from match.index
RECURSIVE MatchesFrom(_, _, _, _, _)
MatchesFrom(uri, text, toks, name, i) ==
  IF i > Len(toks) THEN << >>
  ELSE (IF WholeWordIn(toks[i].s, name) # {}
        THEN <<Location(uri, Range(text, toks[i].start + Least(WholeWordIn(toks[i].s, name)),
                                   toks[i].start + Least(WholeWordIn(toks[i].s, name)) + Len(name)))>>
        ELSE << >>)
       \o MatchesFrom(uri, text, toks, name, i + 1)

MatchesTable ==
  [uri \in Docs |-> [t \in TextIds |-> [name \in Words |->
     MatchesFrom(uri, t, LexTable[t], name, 1)]]]

Matches(uri, t, name) == MatchesTable[uri][t][name]

\* (variant of ScanFiles that returns no location once cancellation is seen)
RECURSIVE ScanFilesCancelDrops(_, _, _, _, _, _)
ScanFilesCancelDrops(texts, name, uris, i, io, locations) ==
  IF i > Len(uris) THEN [fault |-> FALSE, items |-> locations]
  ELSE IF io.cancelAt = i THEN [fault |-> FALSE, items |-> << >>]
  ELSE IF io.failAt = i THEN [fault |-> TRUE, items |-> << >>]
  ELSE ScanFilesCancelDrops(texts, name, uris, i + 1, io,
                            locations \o Matches(uris[i], texts[uris[i]], name))

\* the loop over the enumerated files.  cancelAt = i: cancellation of the
\* progress token is seen at the check before file i; failAt = i:
\* openTextDocument of file i rejects; tokenAt = i: cancellation is requested
\* on the token of the call before the check of file i, which the loop never
\* reads (0: never).  fault = TRUE is the rejected promise.
RECURSIVE ScanFiles(_, _, _, _, _, _)
ScanFiles(texts, name, uris, i, io, locations) ==
  IF i > Len(uris) THEN [fault |-> FALSE, items |-> locations]
  ELSE IF io.cancelAt = i THEN [fault |-> FALSE, items |-> locations]
  ELSE IF io.failAt = i THEN [fault |-> TRUE, items |-> << >>]
  ELSE ScanFiles(texts, name, uris, i + 1, io,
                 locations \o Matches(uris[i], texts[uris[i]], name))

provideReferences(texts, uri, pos, includeDeclaration, io) ==
  LET wordRange == wordRangeAt(texts[uri], pos) IN
  IF ~wordRange.found THEN [fault |-> FALSE, items |-> << >>]
  ELSE ScanFiles(texts, wordRange.word, findFiles, 1, io, << >>)

NoIO == [cancelAt |-> 0, failAt |-> 0, tokenAt |-> 0]

\* the outcomes of the file system and of the progress token during one scan
IOs == {io \in [cancelAt : 0..Len(findFiles), failAt : 0..Len(findFiles), tokenAt : {0}] :
          io.cancelAt = 0 \/ io.failAt = 0}

\* and with the outcomes of the token of the call
TokenIOs == IOs \cup [cancelAt : {0}, failAt : {0}, tokenAt : 1..Len(findFiles)]

(***************************************************************************)
(* Fallback Orchestrator: GraphQLFallbackProvider.provideDefinition        *)
(***************************************************************************)
\* (variant of LocationLink whose origin is the target range)
LocationLinkFromTarget(wordRange, loc) ==
  [originSelectionRange |-> loc.range, targetUri |-> loc.uri,
   targetRange |-> loc.range, targetSelectionRange |-> loc.range]

LocationLink(wordRange, loc) ==
  [originSelectionRange |-> wordRange, targetUri |-> loc.uri,
   targetRange |-> loc.range, targetSelectionRange |-> loc.range]

\* refs.map(loc => LocationLink)
ToLinks(wordRange, refs) == [k \in 1..Len(refs) |-> LocationLink(wordRange, refs[k])]

NoRefs == [fault |-> FALSE, items |-> << >>]

\* (variant of FallbackReferences without the catch: the rejection of the
\* scan is the rejection of the call)
FallbackReferencesNoCatch(wordRange, refs) ==
  IF refs.fault THEN [kind |-> "fault", out |-> Null]
  ELSE IF Len(refs.items) > 0
  THEN [kind |-> "links",
        out |-> List([k \in 1..Len(refs.items) |->
                        [originSelectionRange |-> wordRange, targetUri |-> refs.items[k].uri,
                         targetRange |-> refs.items[k].range,
                         targetSelectionRange |-> refs.items[k].range]])]
  ELSE [kind |-> "null", out |-> Null]

\* the try / catch around the reference scan: links when the scan returned
\* locations; null when it returned none, and when it threw
FallbackReferences(wordRange, refs) ==
  IF refs.fault THEN [kind |-> "null", out |-> Null]
  ELSE IF Len(refs.items) > 0
  THEN [kind |-> "links", out |-> List(ToLinks(wordRange, refs.items))]
  ELSE [kind |-> "null", out |-> Null]

AfterScan(definitions, refs, answer) ==
  [resolver |-> definitions, scanned |-> TRUE, refs |-> refs,
   kind |-> answer.kind, out |-> answer.out]

ScanStep(definitions, wordRange, refs) ==
  AfterScan(definitions, refs, FallbackReferences(wordRange.range, refs))

\* definitions && (Array.isArray(definitions) ? definitions.length > 0 : true)
Resolved(definitions) == ~definitions.out.isNull /\ Len(definitions.out.items) > 0

\* (variant of ResolverStep that scans whatever the resolver found)
ResolverStepScans(definitions, wordRange, texts, uri, pos, io) ==
  IF ~wordRange.found
  THEN [resolver |-> definitions, scanned |-> FALSE, refs |-> NoRefs,
        kind |-> "null", out |-> Null]
  ELSE ScanStep(definitions, wordRange, provideReferences(texts, uri, pos, TRUE, io))

ResolverStep(definitions, wordRange, texts, uri, pos, io) ==
  IF Resolved(definitions)
  THEN [resolver |-> definitions, scanned |-> FALSE, refs |-> NoRefs,
        kind |-> "definition", out |-> definitions.out]
  ELSE IF ~wordRange.found
  THEN [resolver |-> definitions, scanned |-> FALSE, refs |-> NoRefs,
        kind |-> "null", out |-> Null]
  ELSE ScanStep(definitions, wordRange, provideReferences(texts, uri, pos, TRUE, io))

FallbackProvideDefinition(cache, texts, uri, pos, io) ==
  ResolverStep(provideDefinition(cache, uri, texts[uri], pos),
               wordRangeAt(texts[uri], pos), texts, uri, pos, io)

(***************************************************************************)
(* SQL engine: strings and regular expressions, on the tokens of a text    *)
(***************************************************************************)
\* String.prototype.toLowerCase, on the words of the catalogue
toLowerCase(s) ==
  CASE s = "CREATE" -> "create"
    [] s = "TABLE" -> "table"
    [] s = "USERS" -> "users"
    [] OTHER -> s

\* haystack.indexOf(x), the haystack being the source text of the tokens
\* from..to (lower: the haystack was lowercased): the offset of the first
\* occurrence of x, -1 when there is none
IndexOf(toks, from, to, x, lower) ==
  LET str(i) == IF lower THEN toLowerCase(toks[i].s) ELSE toks[i].s
      at == {i \in from..to : OccurrencesIn(str(i), x) # {}}
  IN  IF at = {} THEN 0 - 1
      ELSE toks[Least(at)].start + Least(OccurrencesIn(str(Least(at)), x)) - toks[from].start

\* the tokens of line l, with their columns
LineToks(text, l) ==
  [j \in 1..Len(text[l]) |->
     [s |-> text[l][j],
      start |-> TokCol(text[l], j),
      end |-> TokCol(text[l], j) + Len(text[l][j])]]

CreateKinds == {"table", "type"}

\* (?:IF\s+NOT\s+EXISTS\s+)? from token i
IfNotExistsAt(toks, i) ==
  /\ toLowerCase(TokAt(toks, i)) = "if"
  /\ toLowerCase(TokAt(toks, i + 1)) = "not"
  /\ toLowerCase(TokAt(toks, i + 2)) = "exists"

\* (word) at token n: the pattern is not anchored on the right, so the word
\* matches as a prefix of the token, in any case
NameAt(toks, n, word) ==
  /\ n >= 1 /\ n <= Len(toks)
  /\ \E suf \in Affixes : toLowerCase(word) \o suf = toLowerCase(toks[n].s)

\* [^;]+; after the name at token n: the first ";" that follows, 0 when none does
SemicolonAfter(toks, n) ==
  LET at == {k \in (n + 1)..Len(toks) : toks[k].s = ";"}
  IN  IF at = {} THEN 0 ELSE Least(at)

NoMatch == [ok |-> FALSE, name |-> 0, end |-> 0]

\* the rest of createPattern once CREATE (TABLE|TYPE) matched, the name at token n
CreateTail(toks, n, word) ==
  IF NameAt(toks, n, word) /\ SemicolonAfter(toks, n) # 0
  THEN [ok |-> TRUE, name |-> n, end |-> SemicolonAfter(toks, n)]
  ELSE NoMatch

\* createPattern matched at token i:
\* CREATE\s+(TABLE|TYPE)\s+(?:IF\s+NOT\s+EXISTS\s+)?(word)(?:\s+AS\s+ENUM)?\s*[^;]+; with gmi
CreateMatchAt(toks, i, word) ==
  IF ~(toLowerCase(TokAt(toks, i)) = "create" /\ toLowerCase(TokAt(toks, i + 1)) \in CreateKinds)
  THEN NoMatch
  ELSE IF IfNotExistsAt(toks, i + 2) /\ CreateTail(toks, i + 5, word).ok
  THEN CreateTail(toks, i + 5, word)
  ELSE CreateTail(toks, i + 2, word)

\* match[2]: the source text the group (word) matched
MatchedName(toks, n, word) ==
  CHOOSE p \in Words : Len(p) = Len(word) /\ \E suf \in Affixes : p \o suf = toks[n].s

(***************************************************************************)
(* SQL Declaration Resolver: SQLDefinitionProvider                         *)
(***************************************************************************)
\* while ((match = createPattern.exec(text)) !== null): the next search
\* starts after the match
RECURSIVE CreateMatches(_, _, _, _, _)
CreateMatches(uri, t, toks, word, i) ==
  IF i > Len(toks) THEN << >>
  ELSE LET m == CreateMatchAt(toks, i, word) IN
       IF ~m.ok THEN CreateMatches(uri, t, toks, word, i + 1)
       ELSE LET matchedName == MatchedName(toks, m.name, word)
                at == toks[i].start + IndexOf(toks, i, m.end, matchedName, FALSE)
            IN  (IF toLowerCase(matchedName) = toLowerCase(word)
                 THEN <<Location(uri, Range(t, at, at + Len(matchedName)))>>
                 ELSE << >>)
                \o CreateMatches(uri, t, toks, word, m.end + 1)

SqlDocs == {"schema_sql"}

\* the documents a memo can hold entries of: the SQL document and an older
\* copy of it kept beside it, whose name begins with the name of the
\* document followed by "-"
SqlUris == SqlDocs \cup {"schema_sql-old"}

\* the scan of findDefinitions for every text and word, computed once
SqlDefinitionsTable ==
  [uri \in SqlUris |-> [t \in TextIds |-> [word \in Words |->
     CreateMatches(uri, t, LexTable[t], word, 1)]]]

\* new Map<string, vscode.Location[]>()
EmptyMemo == [k \in {} |-> << >>]

\* `${document.uri.toString()}-${word}`
DefinitionKey(uri, word) == uri \o "-" \o word

\* findDefinitions: the memoised scan; value is what it returns, cache the memo after it
findDefinitions(cache, uri, t, word) ==
  IF MapHas(cache, DefinitionKey(uri, word))
  THEN [value |-> cache[DefinitionKey(uri, word)], cache |-> cache]
  ELSE [value |-> SqlDefinitionsTable[uri][t][word],
        cache |-> MapSet(cache, DefinitionKey(uri, word), SqlDefinitionsTable[uri][t][word])]

\* createPattern.exec(lineText): the first CREATE (TABLE|TYPE) of the line
\* that something follows, 0 when there is none
CreateOnLine(ltoks) ==
  LET at == {j \in 1..Len(ltoks) :
               /\ toLowerCase(ltoks[j].s) = "create"
               /\ toLowerCase(TokAt(ltoks, j + 1)) \in CreateKinds
               /\ j + 2 <= Len(ltoks)}
  IN  IF at = {} THEN 0 ELSE Least(at)

isOnDefinition(text, pos, word) ==
  LET ltoks == LineToks(text, pos.line + 1)
      j == CreateOnLine(ltoks)
  IN  IF j = 0 THEN FALSE
      ELSE LET wordInLine == IndexOf(ltoks, j + 2, Len(ltoks), toLowerCase(word), TRUE)
               wordStartPos == ltoks[j + 2].start + wordInLine
               wordEndPos == wordStartPos + Len(word)
           IN  /\ wordInLine # 0 - 1
               /\ pos.character >= wordStartPos
               /\ pos.character <= wordEndPos

IsOnDefinitionTable ==
  [t \in TextIds |-> [pos \in CursorPositions(AllTexts[t]) |->
     /\ wordRangeAt(t, pos).found
     /\ isOnDefinition(AllTexts[t], pos, wordRangeAt(t, pos).word)]]

DefinitionsOut(found) ==
  [out |-> IF Len(found.value) > 0 THEN List(found.value) ELSE Null, cache |-> found.cache]

\* SQLDefinitionProvider.provideDefinition: out is what it returns, cache the memo after it
SqlProvideDefinition(cache, uri, t, pos) ==
  IF ~wordRangeAt(t, pos).found THEN [out |-> Null, cache |-> cache]
  ELSE IF IsOnDefinitionTable[t][pos] THEN [out |-> Null, cache |-> cache]
  ELSE DefinitionsOut(findDefinitions(cache, uri, t, wordRangeAt(t, pos).word))

(***************************************************************************)
(* SQL Reference Scanner: SQLReferenceProvider                             *)
(***************************************************************************)
\* (variant of IsCommentLine that takes no line for a comment)
IsCommentLineNever(line) == FALSE

\* line.trim().startsWith('--')
IsCommentLine(line) == Len(line) > 0 /\ line[1] = "--"

\* the matches of \bword\b with gi on line l that the comment filter keeps
RECURSIVE WordMatchesOnLine(_, _, _, _, _)
WordMatchesOnLine(uri, t, l, word, j) ==
  LET toks == LexLine(AllTexts[t], l) IN
  IF j > Len(toks) THEN << >>
  ELSE (IF /\ IsWord(toks[j].s)
           /\ toLowerCase(toks[j].s) = toLowerCase(word)
           /\ ~IsCommentLine(AllTexts[t][l])
        THEN <<Location(uri, Range(t, toks[j].start, toks[j].start + Len(toks[j].s)))>>
        ELSE << >>)
       \o WordMatchesOnLine(uri, t, l, word, j + 1)

RECURSIVE WordMatches(_, _, _, _)
WordMatches(uri, t, word, l) ==
  IF l > Len(AllTexts[t]) THEN << >>
  ELSE WordMatchesOnLine(uri, t, l, word, 1) \o WordMatches(uri, t, word, l + 1)

SqlReferencesTable ==
  [uri \in SqlUris |-> [t \in TextIds |-> [word \in Words |-> WordMatches(uri, t, word, 1)]]]

\* `${document.uri.toString()}-${word}-${includeDeclaration}`
ReferenceKey(uri, word, includeDeclaration) ==
  uri \o "-" \o word \o "-" \o (IF includeDeclaration THEN "true" ELSE "false")

\* findReferences: the memoised scan
findReferences(cache, uri, t, word, includeDeclaration) ==
  IF MapHas(cache, ReferenceKey(uri, word, includeDeclaration))
  THEN [value |-> cache[ReferenceKey(uri, word, includeDeclaration)], cache |-> cache]
  ELSE [value |-> SqlReferencesTable[uri][t][word],
        cache |-> MapSet(cache, ReferenceKey(uri, word, includeDeclaration),
                         SqlReferencesTable[uri][t][word])]

\* SQLReferenceProvider.provideReferences
SqlProvideReferences(cache, uri, t, pos, includeDeclaration) ==
  IF ~wordRangeAt(t, pos).found THEN [value |-> << >>, cache |-> cache]
  ELSE findReferences(cache, uri, t, wordRangeAt(t, pos).word, includeDeclaration)

(***************************************************************************)
(* SQL Fallback Orchestrator: SQLFallbackProvider.provideDefinition        *)
(***************************************************************************)
SqlLocationLink(wordRange, loc) ==
  [originSelectionRange |-> wordRange, targetUri |-> loc.uri,
   targetRange |-> loc.range, targetSelectionRange |-> loc.range]

\* references.map(loc => LocationLink)
SqlToLinks(wordRange, references) ==
  [k \in 1..Len(references) |-> SqlLocationLink(wordRange, references[k])]

\* (variant of SqlFallbackReferences that returns the list of links even when
\* it is empty)
SqlFallbackReferencesAlwaysLinks(wordRange, references) ==
  [kind |-> "links", out |-> List(SqlToLinks(wordRange, references))]

\* the try block: links when the scan returned locations, null otherwise.
\* Nothing the scan executes throws, so the catch block is never entered.
SqlFallbackReferences(wordRange, references) ==
  IF Len(references) > 0
  THEN [kind |-> "links", out |-> List(SqlToLinks(wordRange, references))]
  ELSE [kind |-> "null", out |-> Null]

SqlAfterScan(definitions, references, answer) ==
  [resolver |-> [out |-> definitions.out], scanned |-> TRUE, refs |-> references.value,
   kind |-> answer.kind, out |-> answer.out,
   definitionCache |-> definitions.cache, referenceCache |-> references.cache]

SqlScanStep(definitions, wordRange, references) ==
  SqlAfterScan(definitions, references, SqlFallbackReferences(wordRange.range, references.value))

\* definitions && Array.isArray(definitions) && definitions.length > 0
SqlResolved(definitions) == ~definitions.out.isNull /\ Len(definitions.out.items) > 0

SqlResolverStep(definitions, wordRange, refMemo, uri, t, pos) ==
  IF SqlResolved(definitions)
  THEN [resolver |-> [out |-> definitions.out], scanned |-> FALSE, refs |-> << >>,
        kind |-> "definition", out |-> definitions.out,
        definitionCache |-> definitions.cache, referenceCache |-> refMemo]
  ELSE IF ~wordRange.found
  THEN [resolver |-> [out |-> definitions.out], scanned |-> FALSE, refs |-> << >>,
        kind |-> "null", out |-> Null,
        definitionCache |-> definitions.cache, referenceCache |-> refMemo]
  ELSE SqlScanStep(definitions, wordRange,
                   SqlProvideReferences(refMemo, uri, t, pos, TRUE))

SqlFallbackProvideDefinition(defMemo, refMemo, uri, t, pos) ==
  SqlResolverStep(SqlProvideDefinition(defMemo, uri, t, pos),
                  wordRangeAt(t, pos), refMemo, uri, t, pos)

(***************************************************************************)
(* Initial states.  activate constructs the GraphQL providers and no SQL   *)
(* provider; the SQL providers are constructed by the code that imports    *)
(* their classes.  The two families share no state.                        *)
(***************************************************************************)
\* activate has run: initializeCache awaits findFiles, nothing is indexed
Init ==
  /\ docText \in [Docs -> UNION {DocTexts(d) : d \in Docs}]
  /\ \A d \in Docs : docText[d] \in DocTexts(d)
  /\ definitionsCache = << >>
  /\ initPc = 0
  /\ last = Idle
  /\ lastParsed = [d \in Docs |-> NoText]
  /\ providers = "GraphQL"
  /\ sqlText = Least(SqlTexts)
  /\ definitionCache = EmptyMemo
  /\ referenceCache = EmptyMemo
  /\ EarlierEmpty

\* the SQL providers are constructed, their memos are empty
InitSql ==
  /\ docText = [d \in Docs |-> Least(DocTexts(d))]
  /\ definitionsCache = << >>
  /\ initPc = 0
  /\ last = Idle
  /\ lastParsed = [d \in Docs |-> NoText]
  /\ providers = "SQL"
  /\ sqlText \in SqlTexts
  /\ definitionCache = EmptyMemo
  /\ referenceCache = EmptyMemo
  /\ EarlierEmpty

(***************************************************************************)
(* Actions                                                                 *)
(***************************************************************************)
\* onDidChangeTextDocument: the document has its new text, the listener runs
OnDidChangeTextDocument(d, t) ==
  /\ providers = "GraphQL"
  /\ last = Idle
  /\ docText' = [docText EXCEPT ![d] = t]
  /\ definitionsCache' =
       IF isGraphQLFile(d) THEN updateCacheForDocument(definitionsCache, d, t)
       ELSE definitionsCache
  /\ lastParsed' = NoteParsed(lastParsed, d, t)
  /\ last' = [op |-> "update", event |-> "change", doc |-> d,
              before |-> SlotIn(definitionsCache, d),
              cacheBefore |-> definitionsCache]
  /\ UNCHANGED initPc
  /\ UNCHANGED <<sqlVars, earlierVars>>

\* onDidOpenTextDocument
OnDidOpenTextDocument(d) ==
  /\ providers = "GraphQL"
  /\ last = Idle
  /\ definitionsCache' =
       IF isGraphQLFile(d) THEN updateCacheForDocument(definitionsCache, d, docText[d])
       ELSE definitionsCache
  /\ lastParsed' = NoteParsed(lastParsed, d, docText[d])
  /\ last' = [op |-> "update", event |-> "open", doc |-> d,
              before |-> SlotIn(definitionsCache, d),
              cacheBefore |-> definitionsCache]
  /\ UNCHANGED <<docText, initPc>>
  /\ UNCHANGED <<sqlVars, earlierVars>>

\* initializeCache: findFiles resolves
InitializeFindFiles ==
  /\ providers = "GraphQL"
  /\ last = Idle
  /\ initPc = 0
  /\ initPc' = 1
  /\ UNCHANGED <<docText, definitionsCache, last, lastParsed>>
  /\ UNCHANGED <<sqlVars, earlierVars>>

\* (variant of InitializeOpenDocument that indexes the text the file had on
\* disk when the workspace was enumerated, not the text of the live document)
InitializeOpenDocumentStale ==
  /\ providers = "GraphQL"
  /\ last = Idle
  /\ initPc \in 1..Len(findFiles)
  /\ definitionsCache' =
       updateCacheForDocument(definitionsCache, findFiles[initPc],
                              Least(DocTexts(findFiles[initPc])))
  /\ lastParsed' = NoteParsed(lastParsed, findFiles[initPc], docText[findFiles[initPc]])
  /\ initPc' = initPc + 1
  /\ last' = [op |-> "update", event |-> "initialize", doc |-> findFiles[initPc],
              before |-> SlotIn(definitionsCache, findFiles[initPc]),
              cacheBefore |-> definitionsCache]
  /\ UNCHANGED docText
  /\ UNCHANGED <<sqlVars, earlierVars>>

\* (variant of InitializeOpenDocument that goes on to the next file without
\* indexing the one it opened)
InitializeOpenDocumentSkips ==
  /\ providers = "GraphQL"
  /\ last = Idle
  /\ initPc \in 1..Len(findFiles)
  /\ initPc' = initPc + 1
  /\ UNCHANGED <<docText, definitionsCache, last, lastParsed>>
  /\ UNCHANGED <<sqlVars, earlierVars>>

\* initializeCache: openTextDocument of the next file resolves, the file is indexed
InitializeOpenDocument ==
  /\ providers = "GraphQL"
  /\ last = Idle
  /\ initPc \in 1..Len(findFiles)
  /\ definitionsCache' =
       updateCacheForDocument(definitionsCache, findFiles[initPc], docText[findFiles[initPc]])
  /\ lastParsed' = NoteParsed(lastParsed, findFiles[initPc], docText[findFiles[initPc]])
  /\ initPc' = initPc + 1
  /\ last' = [op |-> "update", event |-> "initialize", doc |-> findFiles[initPc],
              before |-> SlotIn(definitionsCache, findFiles[initPc]),
              cacheBefore |-> definitionsCache]
  /\ UNCHANGED docText
  /\ UNCHANGED <<sqlVars, earlierVars>>

\* initializeCache: openTextDocument of the next file rejects; nothing catches
\* it, the scan ends there
InitializeOpenRejected ==
  /\ providers = "GraphQL"
  /\ last = Idle
  /\ initPc \in 1..Len(findFiles)
  /\ initPc' = 0 - 1
  /\ UNCHANGED <<docText, definitionsCache, last, lastParsed>>
  /\ UNCHANGED <<sqlVars, earlierVars>>

\* the outcomes of the scan that matter to a call: all of them when the call
\* reaches the scan, a single one when it does not
ScanOutcomes(d, pos) ==
  IF /\ wordRangeAt(docText[d], pos).found
     /\ ~Resolved(provideDefinition(definitionsCache, d, docText[d], pos))
  THEN IOs ELSE {NoIO}

TokenOutcomes(d, pos) ==
  IF /\ wordRangeAt(docText[d], pos).found
     /\ ~Resolved(provideDefinition(definitionsCache, d, docText[d], pos))
  THEN TokenIOs ELSE {NoIO}

\* go to definition in a document the GraphQL fallback provider is registered for
GoToDefinition(d, pos, io) ==
  /\ providers = "GraphQL"
  /\ last = Idle
  /\ isGraphQLFile(d)
  /\ last' = [op |-> "provideDefinition", provider |-> "GraphQL",
              doc |-> d, pos |-> pos, io |-> io,
              result |-> FallbackProvideDefinition(definitionsCache, docText, d, pos, io)]
  /\ UNCHANGED <<docText, definitionsCache, initPc, lastParsed>>
  /\ UNCHANGED <<sqlVars, earlierVars>>

\* the SQL document is edited; no provider listens
SqlChangeText(t) ==
  /\ providers = "SQL"
  /\ last = Idle
  /\ t # sqlText
  /\ sqlText' = t
  /\ UNCHANGED <<docText, definitionsCache, initPc, last, lastParsed>>
  /\ UNCHANGED <<providers, definitionCache, referenceCache>>
  /\ UNCHANGED earlierVars

\* the call of SQLFallbackProvider.provideDefinition, its result and the memos after it
SqlCall(d, pos) ==
  SqlFallbackProvideDefinition(definitionCache, referenceCache, d, sqlText, pos)

\* go to definition on the SQL fallback provider
SqlGoToDefinition(d, pos) ==
  /\ providers = "SQL"
  /\ last = Idle
  /\ last' = [op |-> "provideDefinition", provider |-> "SQL",
              doc |-> d, pos |-> pos, io |-> NoIO,
              before |-> [definitionCache |-> definitionCache,
                          referenceCache |-> referenceCache],
              result |-> [f \in {"resolver", "scanned", "refs", "kind", "out"} |->
                            SqlCall(d, pos)[f]]]
  /\ definitionCache' = SqlCall(d, pos).definitionCache
  /\ referenceCache' = SqlCall(d, pos).referenceCache
  /\ UNCHANGED <<docText, definitionsCache, initPc, lastParsed, providers, sqlText>>
  /\ UNCHANGED earlierVars

\* the call returns to the editor
Return ==
  /\ last # Idle
  /\ last' = Idle
  /\ UNCHANGED <<docText, definitionsCache, initPc, lastParsed>>
  /\ UNCHANGED <<sqlVars, earlierVars>>

\* the index and its life cycle: the events and the startup scan
Next ==
  \/ \E d \in Docs : \E t \in DocTexts(d) : OnDidChangeTextDocument(d, t)
  \/ \E d \in Docs : OnDidOpenTextDocument(d)
  \/ InitializeFindFiles
  \/ InitializeOpenDocument
  \/ InitializeOpenRejected
  \/ Return

Spec == Init /\ [][Next]_vars

\* the index alone, over the wide range of texts
InitIndex ==
  /\ docText \in [Docs -> UNION {IndexTexts(d) : d \in Docs}]
  /\ \A d \in Docs : docText[d] \in IndexTexts(d)
  /\ definitionsCache = << >>
  /\ initPc = 0
  /\ last = Idle
  /\ lastParsed = [d \in Docs |-> NoText]
  /\ providers = "GraphQL"
  /\ sqlText = Least(SqlTexts)
  /\ definitionCache = EmptyMemo
  /\ referenceCache = EmptyMemo
  /\ EarlierEmpty

NextIndex ==
  \/ \E d \in Docs : \E t \in IndexTexts(d) : OnDidChangeTextDocument(d, t)
  \/ \E d \in Docs : OnDidOpenTextDocument(d)
  \/ InitializeFindFiles
  \/ InitializeOpenDocument
  \/ InitializeOpenRejected
  \/ Return

SpecIndex == InitIndex /\ [][NextIndex]_vars

\* navigation of the GraphQL providers over texts with a query operation,
\* with the cancellation of the token of the call among the outcomes
InitToken ==
  /\ docText \in [Docs -> UNION {TokenTexts(d) : d \in Docs}]
  /\ \A d \in Docs : docText[d] \in TokenTexts(d)
  /\ definitionsCache = << >>
  /\ initPc = 0
  /\ last = Idle
  /\ lastParsed = [d \in Docs |-> NoText]
  /\ providers = "GraphQL"
  /\ sqlText = Least(SqlTexts)
  /\ definitionCache = EmptyMemo
  /\ referenceCache = EmptyMemo
  /\ EarlierEmpty

NextToken ==
  \/ \E d \in Docs : \E t \in TokenTexts(d) : OnDidChangeTextDocument(d, t)
  \/ \E d \in Docs : OnDidOpenTextDocument(d)
  \/ /\ providers = "GraphQL"
     /\ last = Idle
     /\ \E d \in Docs : \E pos \in PositionsTable[docText[d]] :
          \E io \in TokenOutcomes(d, pos) : GoToDefinition(d, pos, io)
  \/ Return

SpecToken == InitToken /\ [][NextToken]_vars

\* navigation: the events and go to definition, of either provider family.
\* The startup scan indexes a file exactly as its open event does, so every
\* state of the index is reached without it.
InitNav == Init \/ InitSql

NextNav ==
  \/ \E d \in Docs : \E t \in DocTexts(d) : OnDidChangeTextDocument(d, t)
  \/ \E d \in Docs : OnDidOpenTextDocument(d)
  \/ /\ providers = "GraphQL"
     /\ last = Idle
     /\ \E d \in Docs : \E pos \in PositionsTable[docText[d]] :
          \E io \in ScanOutcomes(d, pos) : GoToDefinition(d, pos, io)
  \/ \E t \in SqlTexts : SqlChangeText(t)
  \/ /\ providers = "SQL"
     /\ last = Idle
     /\ \E d \in SqlDocs : \E pos \in PositionsTable[sqlText] : SqlGoToDefinition(d, pos)
  \/ Return

SpecNav == InitNav /\ [][NextNav]_vars

(***************************************************************************)
(* Properties                                                              *)
(***************************************************************************)
IndexedDocs == {definitionsCache[i].uri : i \in 1..Len(definitionsCache)}

Slot(d) == CacheGet(definitionsCache, d)

\* the call returning is an index update / a go to definition
Updating == last.op = "update"

Q == last.op = "provideDefinition" /\ last.provider = "GraphQL"

QSql == last.op = "provideDefinition" /\ last.provider = "SQL"

\* the word under the cursor of the returning call
W == wordRangeAt(docText[last.doc], last.pos)

Items(out) == {out.items[k] : k \in 1..Len(out.items)}

\* the largest element of a set of numbers
Last(S) == CHOOSE i \in S : \A j \in S : j <= i

\* The declarations of a text, read off its syntax tree: a name is declared
\* by every definition bearing it, and its entry is the name token of the last.
DeclaredTypes(uri, t) ==
  LET defs == parse(t).definitions
      at == {i \in 1..Len(defs) : defs[i].kind \in TypeKinds}
  IN  [n \in {defs[i].name.s : i \in at} |->
         LET i == Last({k \in at : defs[k].name.s = n})
         IN  Location(uri, Range(t, defs[i].name.start, defs[i].name.end))]

DeclaredFragments(uri, t) ==
  LET defs == parse(t).definitions
      at == {i \in 1..Len(defs) : defs[i].kind = "FragmentDefinition"}
  IN  [n \in {defs[i].name.s : i \in at} |->
         LET i == Last({k \in at : defs[k].name.s = n})
         IN  Location(uri, Range(t, defs[i].name.start, defs[i].name.end))]

DeclaredFields(uri, t) ==
  LET defs == parse(t).definitions
      at == {i \in 1..Len(defs) : defs[i].kind \in TypeKinds /\ defs[i].hasFields}
      tok(i, j) == defs[i].fields[j]
      key(i, j) == defs[i].name.s \o "." \o tok(i, j).s
      keys == UNION {{key(i, j) : j \in 1..Len(defs[i].fields)} : i \in at}
  IN  [k \in keys |->
         LET i == Last({a \in at : \E j \in 1..Len(defs[a].fields) : key(a, j) = k})
             j == Last({b \in 1..Len(defs[i].fields) : key(i, b) = k})
         IN  Location(uri, Range(t, tok(i, j).start, tok(i, j).end))]

Declared(uri, t) ==
  [typeDefinitions |-> DeclaredTypes(uri, t),
   fieldDefinitions |-> DeclaredFields(uri, t),
   fragmentDefinitions |-> DeclaredFragments(uri, t)]

DeclaredTable == [uri \in Docs |-> [t \in TextIds |-> Declared(uri, t)]]

\* C1: an update whose text fails to parse leaves the document's slot as it
\* was before the call: still absent, or still holding the same three tables.
C1_FailedParseKeepsSlot ==
  (Updating /\ ~parse(docText[last.doc]).ok)
    => SlotIn(definitionsCache, last.doc) = last.before

\* a failed update of a document that had a slot with declarations
C1_Witness ==
  /\ Updating
  /\ ~parse(docText[last.doc]).ok
  /\ last.before.present
  /\ DOMAIN last.before.entry.typeDefinitions # {}

\* C2: the slot of every indexed document is exactly the declarations of the
\* last text of it that an update parsed; documents no update parsed have none.
C2_SlotIsLastParsed ==
  \A d \in Docs :
    /\ d \in IndexedDocs <=> lastParsed[d] # NoText
    /\ d \in IndexedDocs => Slot(d) = DeclaredTable[d][lastParsed[d][1]]

\* a successful update has replaced a slot, and a type the slot declared is gone
C2_Witness ==
  /\ Updating
  /\ last.before.present
  /\ lastParsed[last.doc] = <<docText[last.doc]>>
  /\ DOMAIN last.before.entry.typeDefinitions \ DOMAIN Slot(last.doc).typeDefinitions # {}

\* the type / fragment locations the index holds for a name
TypeDocs(w) == {e \in IndexedDocs : MapHas(Slot(e).typeDefinitions, w)}

FragmentDocs(w) == {e \in IndexedDocs : MapHas(Slot(e).fragmentDefinitions, w)}

TypeLocations(w) == {Slot(e).typeDefinitions[w] : e \in TypeDocs(w)}

FragmentLocations(w) == {Slot(e).fragmentDefinitions[w] : e \in FragmentDocs(w)}

StepsRun(r) == {r.steps[k] : k \in 1..Len(r.steps)}

\* C3: the lookups run in the order type, fragment, field and the first that
\* finds something is the result: a name indexed as a type resolves to type
\* locations only, whatever fragments bear it; the field lookup runs only when
\* no type and no fragment of that name is indexed.
C3_LookupOrder ==
  (Q /\ W.found) =>
    LET r == last.result.resolver IN
    /\ TypeDocs(W.word) # {} =>
         /\ ~r.out.isNull /\ Items(r.out) # {}
         /\ Items(r.out) \subseteq TypeLocations(W.word)
         /\ Items(r.out) \cap FragmentLocations(W.word) = {}
         /\ r.steps = <<"type">>
    /\ (TypeDocs(W.word) = {} /\ FragmentDocs(W.word) # {}) =>
         /\ ~r.out.isNull /\ Items(r.out) # {}
         /\ Items(r.out) \subseteq FragmentLocations(W.word)
         /\ r.steps = <<"type", "fragment">>
    /\ "field" \in StepsRun(r) <=> (TypeDocs(W.word) = {} /\ FragmentDocs(W.word) = {})

\* the name is a fragment of the current document and a type of another one
C3_Witness ==
  /\ Q /\ W.found
  /\ last.doc \in FragmentDocs(W.word)
  /\ TypeDocs(W.word) # {}
  /\ last.doc \notin TypeDocs(W.word)
  /\ last.result.kind = "definition"

\* C4: a type name the current document's slot holds resolves to exactly one
\* location, the one of that slot, however many other documents declare it.
C4_SameFileFirst ==
  (Q /\ W.found /\ last.doc \in TypeDocs(W.word)) =>
    last.result.resolver.out = List(<<Slot(last.doc).typeDefinitions[W.word]>>)

\* the current document and another document both declare the type
C4_Witness ==
  /\ Q /\ W.found
  /\ last.doc \in TypeDocs(W.word)
  /\ TypeDocs(W.word) \ {last.doc} # {}
  /\ last.result.kind = "definition"

\* C5: a type name the current document's slot does not hold resolves to one
\* location for every other indexed document that declares it, none of them
\* in the current document; with a_graphql holding the text TUser as the only
\* indexed declaration of User, resolving User from the text TQuery of
\* b_graphql gives the one location of the name token User in a_graphql.
C5_OtherFiles ==
  (Q /\ W.found /\ last.doc \notin TypeDocs(W.word) /\ TypeDocs(W.word) # {}) =>
    LET out == last.result.resolver.out IN
    /\ ~out.isNull
    /\ Len(out.items) = Cardinality(TypeDocs(W.word))
    /\ Items(out) = TypeLocations(W.word)
    /\ \A loc \in Items(out) : loc.uri # last.doc /\ loc.uri \in TypeDocs(W.word)
    /\ ( /\ last.doc = "b_graphql" /\ docText["b_graphql"] = TextId(TQuery)
         /\ W.word = "User" /\ TypeDocs("User") = {"a_graphql"}
         /\ lastParsed["a_graphql"] = <<TextId(TUser)>> )
       => out = List(<<Location("a_graphql",
                                [start |-> [line |-> 0, character |-> Len("type ")],
                                 end |-> [line |-> 0, character |-> Len("type User")]])>>)

\* two other documents declare the type, the current one does not
C5_Witness ==
  /\ Q /\ W.found
  /\ last.doc \notin TypeDocs(W.word)
  /\ Cardinality(TypeDocs(W.word)) >= 2
  /\ Len(last.result.resolver.out.items) >= 2

FieldDocs(k) == {e \in IndexedDocs : MapHas(Slot(e).fieldDefinitions, k)}

FieldLocations(k) == {Slot(e).fieldDefinitions[k] : e \in FieldDocs(k)}

\* the enclosing top-level declaration of the cursor of the returning call
Parent == getParentTypeName(docText[last.doc], last.pos)

\* the qualified name of the word under the cursor
FieldKey == Parent.name \o "." \o W.word

\* the word is a field of some other type of the index
FieldOfAnotherType ==
  \E e \in IndexedDocs : \E n \in Words :
    /\ n # Parent.name
    /\ MapHas(Slot(e).fieldDefinitions, n \o "." \o W.word)

FieldEntries(key, out) ==
  /\ FieldDocs(key) # {} =>
       /\ ~out.isNull /\ Items(out) # {}
       /\ Items(out) \subseteq FieldLocations(key)
  /\ (FieldDocs(key) = {} /\ FieldOfAnotherType) => out.isNull

SameFileFirstEntries(key, out) ==
  /\ last.doc \in FieldDocs(key) =>
       out = List(<<Slot(last.doc).fieldDefinitions[key]>>)
  /\ (last.doc \notin FieldDocs(key) /\ FieldDocs(key) # {}) =>
       /\ ~out.isNull
       /\ Items(out) = FieldLocations(key)
       /\ Len(out.items) = Cardinality(FieldDocs(key))
  /\ FieldDocs(key) = {} => out.isNull

\* C6 as the specification states it: with the cursor enclosed by Type, the
\* field token resolves to the indexed entries of Type.field; enclosed by a
\* type that has no such field it resolves to nothing.
C6_FieldByEnclosingType_Original ==
  (Q /\ W.found /\ Parent.found) =>
    FieldEntries(FieldKey, last.result.resolver.out)

\* C6: when the word names no indexed type and no indexed fragment, then with
\* the cursor enclosed by Type (or by a fragment on Type) it resolves to the
\* entry of Type.field of the current document if there is one, otherwise to
\* the entries of Type.field of all other documents; enclosed by a type that
\* has no such field it resolves to nothing, whatever other types have it.
C6_FieldByEnclosingType ==
  (Q /\ W.found /\ Parent.found /\ TypeDocs(W.word) = {} /\ FragmentDocs(W.word) = {}) =>
    SameFileFirstEntries(FieldKey, last.result.resolver.out)

\* a field resolved by the type condition of the enclosing fragment, while a
\* type of another name has a field of the same name
C6_Witness ==
  /\ Q /\ W.found /\ Parent.found
  /\ TypeDocs(W.word) = {} /\ FragmentDocs(W.word) = {}
  /\ FieldDocs(FieldKey) # {}
  /\ last.result.kind = "definition"
  /\ Items(last.result.out) = FieldLocations(FieldKey)

\* the word under the cursor of the returning SQL call
WSql == wordRangeAt(sqlText, last.pos)

\* what the resolver yields for the returning call
ResolverYield == provideDefinition(definitionsCache, last.doc, docText[last.doc], last.pos)

SqlResolverYield == SqlProvideDefinition(definitionCache, last.doc, sqlText, last.pos)

\* what the scanner yields for the returning call: the scan under the same
\* outcomes of the file system; the memo entry of the word after the call
ScannerYield == provideReferences(docText, last.doc, last.pos, TRUE, last.io)

SqlScannerYield == referenceCache[ReferenceKey(last.doc, WSql.word, TRUE)]

\* the resolver yielded locations: they are the result, nothing was scanned
ReturnedItself(definitions, result) ==
  /\ result.out = definitions.out
  /\ result.kind = "definition"
  /\ ~result.scanned

\* C7: when the resolver yields one or more locations the orchestrator
\* returns that list itself and the scanner is not invoked, in both engines.
C7_ResolverResultReturned ==
  /\ Q => (LET check(definitions) ==
                 Resolved(definitions) => ReturnedItself(definitions, last.result)
           IN  check(ResolverYield))
  /\ QSql => (LET check(definitions) ==
                    SqlResolved(definitions) =>
                      /\ ReturnedItself(definitions, last.result)
                      /\ referenceCache = last.before.referenceCache
              IN  check(SqlResolverYield))

\* the resolver found the declarations of two documents, in the order of the index
C7_Witness ==
  /\ Q /\ Resolved(last.result.resolver)
  /\ Len(last.result.out.items) >= 2
  /\ last.result.out.items[1].uri # last.result.out.items[2].uri
  /\ ~last.result.scanned

\* the links of a list of locations, from a word span
LinksOf(range, locations, out) ==
  /\ ~out.isNull
  /\ Len(out.items) = Len(locations)
  /\ \A k \in 1..Len(locations) :
       /\ out.items[k].originSelectionRange = range
       /\ out.items[k].targetUri = locations[k].uri
       /\ out.items[k].targetRange = locations[k].range

Linked(range, definitions, refs, result) ==
  (~Resolved(definitions) /\ ~refs.fault /\ Len(refs.items) > 0) =>
    /\ result.kind = "links"
    /\ LinksOf(range, refs.items, result.out)

SqlLinked(range, definitions, references, result) ==
  (~SqlResolved(definitions) /\ Len(references) > 0) =>
    /\ result.kind = "links"
    /\ LinksOf(range, references, result.out)

\* C8: when the resolver yields nothing and the scanner yields a non-empty
\* list, the orchestrator returns one link per scanner location, in the
\* scanner's order, its origin the span of the word under the cursor and its
\* target the location, in both engines.
C8_FallbackLinks ==
  /\ (Q /\ W.found) => Linked(W.range, ResolverYield, ScannerYield, last.result)
  /\ (QSql /\ WSql.found) => SqlLinked(WSql.range, SqlResolverYield, SqlScannerYield, last.result)

\* the scan found the word in two documents
C8_Witness ==
  /\ Q /\ W.found /\ ~Resolved(last.result.resolver)
  /\ last.result.scanned /\ ~last.result.refs.fault
  /\ \E j, k \in 1..Len(last.result.refs.items) :
       j < k /\ last.result.refs.items[j].uri # last.result.refs.items[k].uri
  /\ last.result.kind = "links"

IsNullResult(result) == result.out = Null /\ result.kind = "null"

NothingFound(word, definitions, refs, result) ==
  (~Resolved(definitions) /\ (~word.found \/ refs.fault \/ Len(refs.items) = 0)) =>
    IsNullResult(result)

SqlNothingFound(word, definitions, result) ==
  (~SqlResolved(definitions) /\ (~word.found \/ Len(SqlScannerYield) = 0)) =>
    IsNullResult(result)

\* C9: the call of the orchestrator never ends with the fault of the scanner
\* and never returns an empty list; when the resolver yields nothing and the
\* scanner yields nothing, raises, or there is no word under the cursor, the
\* result is null, in both engines.
C9_NullNotFault ==
  /\ (Q \/ QSql) =>
       /\ last.result.kind # "fault"
       /\ last.result.out.isNull \/ Len(last.result.out.items) > 0
       /\ last.result.out.isNull <=> last.result.kind = "null"
  /\ Q => NothingFound(W, ResolverYield, ScannerYield, last.result)
  /\ QSql => SqlNothingFound(WSql, SqlResolverYield, last.result)

\* the scanner raised: a document failed to open after matches were found
C9_Witness ==
  /\ Q /\ W.found /\ ~Resolved(last.result.resolver)
  /\ last.result.scanned /\ last.result.refs.fault
  /\ last.io.failAt > 1
  /\ last.result.out = Null

\* the declarations of the text of a document that its last parsed update read
DeclaredIn(d) == DeclaredTable[d][lastParsed[d][1]]

LocationsOf(entry) ==
  {entry.typeDefinitions[k] : k \in DOMAIN entry.typeDefinitions}
    \cup {entry.fieldDefinitions[k] : k \in DOMAIN entry.fieldDefinitions}
    \cup {entry.fragmentDefinitions[k] : k \in DOMAIN entry.fragmentDefinitions}

\* the index as the last parsed updates of its documents define it
RECURSIVE DeclaredCacheFrom(_)
DeclaredCacheFrom(i) ==
  IF i > Len(definitionsCache) THEN << >>
  ELSE <<[uri |-> definitionsCache[i].uri, entry |-> DeclaredIn(definitionsCache[i].uri)]>>
       \o DeclaredCacheFrom(i + 1)

DeclaredCache == DeclaredCacheFrom(1)

FromLastParsed(out) ==
  \A loc \in Items(out) :
    /\ lastParsed[loc.uri] # NoText
    /\ loc \in LocationsOf(DeclaredIn(loc.uri))

\* C10: a lookup issued after the updates of the documents resolves against
\* the declarations of the text each document had at its last parsed update:
\* every location it returns in a document is a declaration of that text, a
\* type the current text declares resolves to its declaration there, and the
\* whole result is the resolution over those declarations.
C10_ReadAfterWrite ==
  Q =>
    /\ FromLastParsed(last.result.resolver.out)
    /\ (W.found /\ lastParsed[last.doc] # NoText
          /\ MapHas(DeclaredIn(last.doc).typeDefinitions, W.word)) =>
         last.result.resolver.out = List(<<DeclaredIn(last.doc).typeDefinitions[W.word]>>)
    /\ last.result.resolver.out =
         provideDefinition(DeclaredCache, last.doc, docText[last.doc], last.pos).out

\* a lookup in a document right after its update: the word is a type of the
\* text before the update of another text of the catalogue, not of this one,
\* and the lookup goes to another document
C10_Witness ==
  /\ Q /\ W.found
  /\ lastParsed[last.doc] = <<docText[last.doc]>>
  /\ ~MapHas(DeclaredIn(last.doc).typeDefinitions, W.word)
  /\ \E t \in DocTexts(last.doc) : MapHas(DeclaredTable[last.doc][t].typeDefinitions, W.word)
  /\ ~last.result.resolver.out.isNull
  /\ \A loc \in Items(last.result.resolver.out) : loc.uri # last.doc

\* C11: an update run again on the unchanged text leaves the whole index as
\* the first run left it, whether the text parses or not: in the state an
\* update has produced, and for every document in every state of the index.
C11_UpdateIdempotent ==
  /\ Updating =>
       updateCacheForDocument(definitionsCache, last.doc, docText[last.doc]) = definitionsCache
  /\ \A d \in Docs :
       LET once == updateCacheForDocument(definitionsCache, d, docText[d])
       IN  updateCacheForDocument(once, d, docText[d]) = once

\* an update that parsed its text and changed the tables of the slot it found
C11_Witness ==
  /\ Updating
  /\ parse(docText[last.doc]).ok
  /\ last.before.present
  /\ Slot(last.doc) # last.before.entry
  /\ Len(definitionsCache) >= 2

\* C12: every location stored in the slot of a document is a location in
\* that document, and an update of a document, successful or failed, leaves
\* the slot of every other document as it was: absent, or the same tables.
C12_OwnershipAndFrame ==
  /\ \A d \in IndexedDocs : \A loc \in LocationsOf(Slot(d)) : loc.uri = d
  /\ Updating =>
       \A e \in Docs \ {last.doc} :
         SlotIn(definitionsCache, e) = SlotIn(last.cacheBefore, e)

\* a successful update replaced the slot of a document while another document
\* held a slot declaring the same type
C12_Witness ==
  /\ Updating
  /\ parse(docText[last.doc]).ok
  /\ last.before.present
  /\ Slot(last.doc) # last.before.entry
  /\ \E e \in IndexedDocs \ {last.doc} :
       DOMAIN Slot(e).typeDefinitions \cap DOMAIN Slot(last.doc).typeDefinitions # {}

\* the member values of an enumeration of the text named t: the names
\* between the braces of the definition
EnumValues(t, def) ==
  {LexTable[t][i].s : i \in {k \in 1..Len(LexTable[t]) :
                               /\ IsWord(LexTable[t][k].s)
                               /\ LexTable[t][k].start > def.name.end
                               /\ LexTable[t][k].end < def.end}}

\* the members of a type-like definition: its fields, or its values
Members(t, def) ==
  IF def.kind = "EnumTypeDefinition" THEN EnumValues(t, def)
  ELSE {def.fields[j].s : j \in 1..Len(def.fields)}

\* C16: after an update that parsed its text, the field table of the slot has
\* the key Type.member for every member field of every type-like declaration
\* of the text and for every member value of every enumeration of it.
C16_MembersIndexed ==
  (Updating /\ isGraphQLFile(last.doc) /\ parse(docText[last.doc]).ok) =>
    LET defs == parse(docText[last.doc]).definitions IN
    \A i \in 1..Len(defs) :
      defs[i].kind \in TypeKinds =>
        \A m \in Members(docText[last.doc], defs[i]) :
          MapHas(Slot(last.doc).fieldDefinitions, defs[i].name.s \o "." \o m)

\* the token of a set of tokens that comes last in the text
LastToken(S) == CHOOSE x \in S : \A y \in S : y.start <= x.start

\* the name tokens of the definitions of given kinds, and the field tokens of
\* the type-like definitions, of a parsed text
NameTokens(defs, kinds, n) ==
  {defs[i].name : i \in {k \in 1..Len(defs) : defs[k].kind \in kinds /\ defs[k].name.s = n}}

FieldTokens(defs, key) ==
  UNION {{defs[i].fields[j] :
            j \in {b \in 1..Len(defs[i].fields) :
                     defs[i].name.s \o "." \o defs[i].fields[b].s = key}} :
         i \in {k \in 1..Len(defs) : defs[k].kind \in TypeKinds}}

\* the qualified names of the fields the definitions of a parsed text declare
FieldKeys(defs) ==
  UNION {{defs[i].name.s \o "." \o defs[i].fields[j].s : j \in 1..Len(defs[i].fields)} :
         i \in {k \in 1..Len(defs) : defs[k].kind \in TypeKinds}}

TokenLocation(uri, t, tok) == Location(uri, Range(t, tok.start, tok.end))

\* the table that has one entry for each declared name, the last declaration's
LastWins(uri, t, names, tokens(_)) ==
  [n \in names |-> TokenLocation(uri, t, LastToken(tokens(n)))]

LastDeclared(uri, t) ==
  LET defs == parse(t).definitions
      types(n) == NameTokens(defs, TypeKinds, n)
      fragments(n) == NameTokens(defs, {"FragmentDefinition"}, n)
      fields(key) == FieldTokens(defs, key)
  IN  [typeDefinitions |-> LastWins(uri, t, {n \in Words : types(n) # {}}, types),
       fieldDefinitions |-> LastWins(uri, t, FieldKeys(defs), fields),
       fragmentDefinitions |->
         LastWins(uri, t, {n \in Words : fragments(n) # {}}, fragments)]

LastDeclaredTable == [uri \in Docs |-> [t \in TextIds |-> LastDeclared(uri, t)]]

\* C17: an update whose text parses stores a slot, whatever names the text
\* declares more than once; each table has one entry for each declared type,
\* qualified field or fragment name, the location of the last declaration of
\* that name in the text.
C17_LastDeclarationWins ==
  (Updating /\ isGraphQLFile(last.doc) /\ parse(docText[last.doc]).ok) =>
    /\ last.doc \in IndexedDocs
    /\ lastParsed[last.doc] = <<docText[last.doc]>>
    /\ Slot(last.doc) = LastDeclaredTable[last.doc][docText[last.doc]]

\* the text of the update declares a type, a qualified field and a fragment twice
C17_Witness ==
  /\ Updating /\ isGraphQLFile(last.doc) /\ parse(docText[last.doc]).ok
  /\ LET defs == parse(docText[last.doc]).definitions IN
     /\ \E n \in Words : Cardinality(NameTokens(defs, TypeKinds, n)) >= 2
     /\ \E n \in Words : Cardinality(NameTokens(defs, {"FragmentDefinition"}, n)) >= 2
     /\ \E k \in DOMAIN Slot(last.doc).fieldDefinitions :
          Cardinality(FieldTokens(defs, k)) >= 2

\* the spans of the name tokens of the type declarations of a name in a text
TypeNameSpans(t, n) ==
  {Range(t, tok.start, tok.end) : tok \in NameTokens(parse(t).definitions, TypeKinds, n)}

TypeNameSpansTable == [t \in TextIds |-> [n \in Words |-> TypeNameSpans(t, n)]]

\* C13: when the slot of some document holds a type of the name under the
\* cursor, the resolver yields a non-empty list; every location of it lies in
\* a document whose indexed text declares the type and spans exactly the name
\* token of such a declaration; and when the slot of the requesting document
\* holds the name, the location of that document is the one returned.
C13_TypeNameToken ==
  (Q /\ W.found /\ TypeDocs(W.word) # {}) =>
    LET out == last.result.resolver.out IN
    /\ ~out.isNull /\ Len(out.items) > 0
    /\ \A loc \in Items(out) :
         /\ lastParsed[loc.uri] # NoText
         /\ loc.range \in TypeNameSpansTable[lastParsed[loc.uri][1]][W.word]
    /\ last.doc \in TypeDocs(W.word) =>
         /\ Len(out.items) = 1
         /\ out.items[1].uri = last.doc
    /\ last.result.out = out

\* the type is resolved into another document, whose slot is that of an
\* earlier text
C13_Witness ==
  /\ Q /\ W.found
  /\ last.doc \notin TypeDocs(W.word)
  /\ \E e \in TypeDocs(W.word) : docText[e] # lastParsed[e][1]
  /\ \E loc \in Items(last.result.out) : docText[loc.uri] # lastParsed[loc.uri][1]
  /\ last.result.kind = "definition"

\* the names of the fragments of a text, and the type conditions they are on
FragmentNames(t) ==
  LET defs == parse(t).definitions IN
  {defs[i].name.s : i \in {k \in 1..Len(defs) : defs[k].kind = "FragmentDefinition"}}

TypeConditions(t) ==
  LET defs == parse(t).definitions IN
  {defs[i].typeCondition : i \in {k \in 1..Len(defs) : defs[k].kind = "FragmentDefinition"}}

FragmentNamesTable == [t \in TextIds |-> FragmentNames(t)]

TypeConditionsTable == [t \in TextIds |-> TypeConditions(t)]

\* every location some fragment table of the index holds
AllFragmentLocations ==
  UNION {{Slot(e).fragmentDefinitions[n] : n \in DOMAIN Slot(e).fragmentDefinitions} :
         e \in IndexedDocs}

\* C14: when no slot holds the word as a type, a fragment name the slot of
\* the current document holds resolves to that single location; otherwise it
\* resolves to one location for every other document whose fragment table
\* holds it.  The fragment tables are keyed by the names of the fragments: a
\* word that is only the type condition of indexed fragments resolves to no
\* fragment location.
C14_FragmentSearch ==
  /\ \A e \in IndexedDocs :
       DOMAIN Slot(e).fragmentDefinitions = FragmentNamesTable[lastParsed[e][1]]
  /\ (Q /\ W.found /\ TypeDocs(W.word) = {}) =>
       LET out == last.result.resolver.out IN
       /\ last.doc \in FragmentDocs(W.word) =>
            out = List(<<Slot(last.doc).fragmentDefinitions[W.word]>>)
       /\ (last.doc \notin FragmentDocs(W.word) /\ FragmentDocs(W.word) # {}) =>
            /\ ~out.isNull
            /\ Len(out.items) = Cardinality(FragmentDocs(W.word))
            /\ Items(out) = FragmentLocations(W.word)
            /\ \A loc \in Items(out) : loc.uri # last.doc
       /\ FragmentDocs(W.word) = {} => Items(out) \cap AllFragmentLocations = {}

\* a fragment of another document is found from a document that uses the
\* name, while the type condition of that fragment names no indexed fragment
C14_Witness ==
  /\ Q /\ W.found /\ TypeDocs(W.word) = {}
  /\ last.doc \notin FragmentDocs(W.word)
  /\ \E e \in FragmentDocs(W.word) :
       /\ W.word \notin TypeConditionsTable[lastParsed[e][1]]
       /\ \E c \in TypeConditionsTable[lastParsed[e][1]] : FragmentDocs(c) = {}
  /\ last.result.kind = "definition"
  /\ Items(last.result.out) = FragmentLocations(W.word)

\* the top-level type-like and fragment declarations of a text whose span
\* contains an offset
Enclosing(t, offset) ==
  LET defs == parse(t).definitions IN
  {i \in 1..Len(defs) :
     /\ defs[i].kind \in TypeKinds \cup {"FragmentDefinition"}
     /\ defs[i].start <= offset /\ offset <= defs[i].end}

\* no declaration of the current text encloses the cursor of the returning call
NoEnclosing == Enclosing(docText[last.doc], OffsetTable[docText[last.doc]][last.pos]) = {}

\* the word is a field of some type of the index
FieldOfSomeType ==
  \E e \in IndexedDocs : \E n \in Words :
    MapHas(Slot(e).fieldDefinitions, n \o "." \o W.word)

\* C15: when no type-like or fragment declaration of the current text
\* contains the cursor, the field lookup returns nothing for the word under
\* it, whatever the index holds; so the resolver yields nothing unless the
\* word is the name of an indexed type or fragment.
C15_NoEnclosingNoField ==
  (Q /\ W.found /\ NoEnclosing) =>
    /\ findFieldDefinition(definitionsCache, W.word, last.doc,
                           docText[last.doc], last.pos).isNull
    /\ "field" \in StepsRun(last.result.resolver) => last.result.resolver.out.isNull
    /\ (TypeDocs(W.word) = {} /\ FragmentDocs(W.word) = {}) =>
         last.result.resolver.out.isNull

\* the cursor is inside a query operation of a text that parses, on a word
\* that is a field of an indexed type, and the field lookup ran
C15_Witness ==
  /\ Q /\ W.found /\ NoEnclosing
  /\ parse(docText[last.doc]).ok
  /\ FieldOfSomeType
  /\ "field" \in StepsRun(last.result.resolver)
  /\ last.result.resolver.out.isNull

\* the occurrences of a word in the enumerated files other than the one at
\* place skip, in the order of the enumeration
RECURSIVE OccurrencesElsewhere(_, _, _)
OccurrencesElsewhere(name, skip, i) ==
  IF i > Len(findFiles) THEN << >>
  ELSE (IF i = skip THEN << >> ELSE Matches(findFiles[i], docText[findFiles[i]], name))
       \o OccurrencesElsewhere(name, skip, i + 1)

\* the scan of the returning call met one file that failed to open
OneFileFailed ==
  /\ Q /\ W.found /\ last.result.scanned
  /\ last.io.failAt > 0 /\ last.io.cancelAt = 0

\* C18: when one enumerated file fails to open during the scan of the
\* fallback, the orchestrator returns the links of the occurrences of the
\* word in the other enumerated files.
C18_BadFileKeepsLinks ==
  (OneFileFailed /\ Len(OccurrencesElsewhere(W.word, last.io.failAt, 1)) > 0) =>
    /\ last.result.kind = "links"
    /\ last.result.out =
         List(ToLinks(W.range, OccurrencesElsewhere(W.word, last.io.failAt, 1)))

\* the occurrences of a word in the first n enumerated files
RECURSIVE PrefixMatches(_, _)
PrefixMatches(name, n) ==
  IF n = 0 THEN << >>
  ELSE PrefixMatches(name, n - 1) \o Matches(findFiles[n], docText[findFiles[n]], name)

\* C19: when cancellation is seen at the check before file i, the scan ends
\* without a fault and returns the occurrences in the files before i, all of
\* them and no other; a scan that ends without a fault always returns all the
\* occurrences of a prefix of the enumerated files.
C19_CancelledScanIsPrefix ==
  (Q /\ W.found /\ last.result.scanned) =>
    LET refs == last.result.refs IN
    /\ last.io.cancelAt > 0 =>
         /\ ~refs.fault
         /\ refs.items = PrefixMatches(W.word, last.io.cancelAt - 1)
         /\ last.result.kind = IF Len(refs.items) > 0 THEN "links" ELSE "null"
    /\ ~refs.fault =>
         \E n \in 0..Len(findFiles) : refs.items = PrefixMatches(W.word, n)

\* cancellation seen before the last file: the occurrences of the files
\* before it are returned, those of the last file are not
C19_Witness ==
  /\ Q /\ W.found /\ last.result.scanned
  /\ last.io.cancelAt = Len(findFiles)
  /\ Len(last.result.refs.items) > 0
  /\ Len(Matches(findFiles[Len(findFiles)], docText[findFiles[Len(findFiles)]], W.word)) > 0
  /\ last.result.kind = "links"
  /\ Len(last.result.out.items) = Len(PrefixMatches(W.word, Len(findFiles) - 1))

\* C20: once cancellation is requested on the token of the call, before the
\* check of file i, the scan opens and scans no further file: it returns the
\* occurrences of the files before i; the resolver's answer is what it is
\* without any cancellation.
C20_HonoursCallToken ==
  (Q /\ W.found /\ last.result.scanned /\ last.io.tokenAt > 0) =>
    /\ ~last.result.refs.fault
    /\ last.result.refs.items = PrefixMatches(W.word, last.io.tokenAt - 1)
    /\ last.result.resolver = ResolverYield

(***************************************************************************)
(* Find all references: the reference provider registered by activate,     *)
(* called by the editor with either value of context.includeDeclaration    *)
(***************************************************************************)
\* the outcomes of the scan of a call: all of them when a word is under the cursor
RefOutcomes(d, pos) ==
  IF wordRangeAt(docText[d], pos).found THEN IOs ELSE {NoIO}

\* find all references in a document of graphqlDocumentSelector
FindReferences(d, pos, includeDeclaration, io) ==
  /\ providers = "GraphQL"
  /\ last = Idle
  /\ isGraphQLFile(d)
  /\ last' = [op |-> "provideReferences", provider |-> "GraphQL",
              doc |-> d, pos |-> pos, includeDeclaration |-> includeDeclaration, io |-> io,
              result |-> provideReferences(docText, d, pos, includeDeclaration, io)]
  /\ UNCHANGED <<docText, definitionsCache, initPc, lastParsed>>
  /\ UNCHANGED <<sqlVars, earlierVars>>

InitRefs ==
  /\ docText \in [Docs -> UNION {RefTexts(d) : d \in Docs}]
  /\ \A d \in Docs : docText[d] \in RefTexts(d)
  /\ definitionsCache = << >>
  /\ initPc = 0
  /\ last = Idle
  /\ lastParsed = [d \in Docs |-> NoText]
  /\ providers = "GraphQL"
  /\ sqlText = Least(SqlTexts)
  /\ definitionCache = EmptyMemo
  /\ referenceCache = EmptyMemo
  /\ EarlierEmpty

NextRefs ==
  \/ \E d \in Docs : \E t \in RefTexts(d) : OnDidChangeTextDocument(d, t)
  \/ \E d \in Docs : OnDidOpenTextDocument(d)
  \/ /\ providers = "GraphQL"
     /\ last = Idle
     /\ \E d \in Docs : \E pos \in PositionsTable[docText[d]] :
          \E includeDeclaration \in BOOLEAN : \E io \in RefOutcomes(d, pos) :
            FindReferences(d, pos, includeDeclaration, io)
  \/ Return

\* the workspace scan called directly, over texts with a word inside a longer one
SpecRefs == InitRefs /\ [][NextRefs]_vars

\* the call returning is a find-all-references of the GraphQL provider
RefCall == last.op = "provideReferences" /\ last.provider = "GraphQL"

\* no cancellation was seen and every file opened
Uncancelled == last.io.cancelAt = 0 /\ last.io.failAt = 0

\* the tokens of the current text of file f that are the string name, no more and no less
TokensEqual(f, name) ==
  {i \in 1..Len(LexTable[docText[f]]) : LexTable[docText[f]][i].s = name}

\* the place of a file in the enumeration
FileIndex(f) == CHOOSE i \in 1..Len(findFiles) : findFiles[i] = f

\* the offset at which a location of file f starts, and its length
StartOffset(loc) == OffsetTable[docText[loc.uri]][loc.range.start]

SpanLength(loc) == OffsetTable[docText[loc.uri]][loc.range.end] - StartOffset(loc)

\* C21: an uncancelled find-all-references of the GraphQL provider returns
\* one location for every token of the current text of every enumerated file
\* that is exactly the word under the cursor, files in enumeration order and
\* occurrences in offset order, each spanning the length of the word; it
\* returns no location inside a longer word or at a word of another case.
C21_WholeWordOccurrences ==
  (RefCall /\ Uncancelled /\ W.found) =>
    LET items == last.result.items
        at(k) == {i \in TokensEqual(items[k].uri, W.word) :
                    LexTable[docText[items[k].uri]][i].start = StartOffset(items[k])}
    IN  /\ ~last.result.fault
        /\ \A k \in 1..Len(items) :
             /\ \E n \in 1..Len(findFiles) : findFiles[n] = items[k].uri
             /\ at(k) # {}
             /\ SpanLength(items[k]) = Len(W.word)
        /\ \A n \in 1..Len(findFiles) : \A i \in TokensEqual(findFiles[n], W.word) :
             Cardinality({k \in 1..Len(items) :
                            /\ items[k].uri = findFiles[n]
                            /\ StartOffset(items[k]) = LexTable[docText[findFiles[n]]][i].start}) = 1
        /\ \A k \in 1..Len(items) : \A m \in 1..Len(items) :
             k < m => \/ FileIndex(items[k].uri) < FileIndex(items[m].uri)
                      \/ /\ items[k].uri = items[m].uri
                         /\ StartOffset(items[k]) < StartOffset(items[m])

\* a scan for User returned while a_graphql holds User, user and User2 and
\* the other two files hold User: three locations, one in each file
C21_Witness ==
  /\ RefCall /\ Uncancelled /\ W.found /\ W.word = "User"
  /\ docText["a_graphql"] = TextId(TWords)
  /\ docText["b_graphql"] = TextId(TUser)
  /\ Len(last.result.items) = 3

(***************************************************************************)
(* The SQL providers alone: the reference provider called directly, with   *)
(* either value of context.includeDeclaration, and the fallback provider,  *)
(* the cursor on a name                                                    *)
(***************************************************************************)
\* the cursor positions of a SQL query: those of the text that are not on a keyword
SqlCursors ==
  [t \in TextIds |->
     {pos \in PositionsTable[t] :
        wordRangeAt(t, pos).found => toLowerCase(wordRangeAt(t, pos).word) \notin {"create", "table"}}]

\* SQLReferenceProvider.provideReferences called by the editor
SqlFindReferences(d, pos, includeDeclaration) ==
  /\ providers = "SQL"
  /\ last = Idle
  /\ last' = [op |-> "provideReferences", provider |-> "SQL",
              doc |-> d, pos |-> pos, includeDeclaration |-> includeDeclaration, io |-> NoIO,
              before |-> [definitionCache |-> definitionCache,
                          referenceCache |-> referenceCache],
              result |-> [fault |-> FALSE,
                          items |-> SqlProvideReferences(referenceCache, d, sqlText, pos,
                                                         includeDeclaration).value]]
  /\ referenceCache' =
       SqlProvideReferences(referenceCache, d, sqlText, pos, includeDeclaration).cache
  /\ UNCHANGED <<docText, definitionsCache, initPc, lastParsed>>
  /\ UNCHANGED <<providers, sqlText, definitionCache>>
  /\ UNCHANGED earlierVars

InitSqlWide ==
  /\ docText = [d \in Docs |-> Least(DocTexts(d))]
  /\ definitionsCache = << >>
  /\ initPc = 0
  /\ last = Idle
  /\ lastParsed = [d \in Docs |-> NoText]
  /\ providers = "SQL"
  /\ sqlText \in SqlWideTexts
  /\ definitionCache = EmptyMemo
  /\ referenceCache = EmptyMemo
  /\ EarlierEmpty

NextSqlRefs ==
  \/ \E t \in SqlWideTexts : SqlChangeText(t)
  \/ \E d \in SqlDocs : \E pos \in SqlCursors[sqlText] : \E includeDeclaration \in BOOLEAN :
       SqlFindReferences(d, pos, includeDeclaration)
  \/ Return

\* the SQL reference provider and the edits of its document
SpecSqlRefs == InitSqlWide /\ [][NextSqlRefs]_vars

NextSql ==
  \/ \E t \in SqlWideTexts : SqlChangeText(t)
  \/ \E d \in SqlDocs : \E pos \in SqlCursors[sqlText] : SqlGoToDefinition(d, pos)
  \/ Return

\* the SQL fallback provider, its resolver and its scanner, and the edits of
\* its document
SpecSql == InitSqlWide /\ [][NextSql]_vars
\* the call returning is a find-all-references of the SQL provider
SqlRefCall == last.op = "provideReferences" /\ last.provider = "SQL"

\* C22: context.includeDeclaration has no observable effect in either
\* engine: in every state, whatever changes and queries came before, a call
\* of provideReferences for a document and a position returns the same
\* locations with includeDeclaration true as with includeDeclaration false.
C22_IncludeDeclarationNoEffect ==
  /\ (providers = "GraphQL" /\ last = Idle) =>
       \A d \in {f \in Docs : isGraphQLFile(f)} : \A pos \in PositionsTable[docText[d]] :
         \A io \in IOs :
           provideReferences(docText, d, pos, TRUE, io) = provideReferences(docText, d, pos, FALSE, io)
  /\ (providers = "SQL" /\ last = Idle) =>
       \A d \in SqlDocs : \A pos \in SqlCursors[sqlText] :
         SqlProvideReferences(referenceCache, d, sqlText, pos, TRUE).value
           = SqlProvideReferences(referenceCache, d, sqlText, pos, FALSE).value

\* C23: the memo of the SQL reference provider never outlives a change of
\* the document: every call of provideReferences returns the scan of the
\* current text, never the result of an earlier version.
C23_ChangeInvalidatesMemo ==
  (SqlRefCall /\ WSql.found) =>
    last.result.items = SqlReferencesTable[last.doc][sqlText][WSql.word]

\* the tokens <<line, token>> of a text that are the word, in any case, on a
\* line that does not start with the comment marker
SqlOccurrences(t, word) ==
  UNION {{<<l, j>> : j \in {n \in 1..Len(AllTexts[t][l]) :
                              /\ IsWord(AllTexts[t][l][n])
                              /\ toLowerCase(AllTexts[t][l][n]) = toLowerCase(word)
                              /\ AllTexts[t][l][1] # "--"}} :
         l \in 1..Len(AllTexts[t])}

\* the location of token j of line l
SqlTokenLocation(uri, t, l, j) ==
  [uri |-> uri,
   range |-> [start |-> [line |-> l - 1, character |-> TokCol(AllTexts[t][l], j)],
              end |-> [line |-> l - 1,
                       character |-> TokCol(AllTexts[t][l], j) + Len(AllTexts[t][l][j])]]]

SqlOccurrencesTable ==
  [uri \in SqlDocs |-> [t \in TextIds |-> [word \in Words |->
     {SqlTokenLocation(uri, t, o[1], o[2]) : o \in SqlOccurrences(t, word)}]]]

\* the call found no entry of the memo for its key
SqlRefMiss ==
  ~MapHas(last.before.referenceCache,
          ReferenceKey(last.doc, WSql.word, last.includeDeclaration))

SqlDeclaringLines(t, word) ==
  {l \in 1..Len(AllTexts[t]) :
     /\ Len(AllTexts[t][l]) >= 3
     /\ toLowerCase(AllTexts[t][l][1]) = "create"
     /\ toLowerCase(AllTexts[t][l][2]) \in CreateKinds
     /\ toLowerCase(AllTexts[t][l][3]) = toLowerCase(word)}

\* the cursor of the returning call is on a line that is neither a
\* statement declaring the word nor a comment
SqlUseSite ==
  /\ (last.pos.line + 1) \notin SqlDeclaringLines(sqlText, WSql.word)
  /\ AllTexts[sqlText][last.pos.line + 1][1] # "--"

\* C25: resolving a table or type name from a use site of a SQL document
\* returns the location of the name token of its CREATE TABLE / CREATE TYPE
\* statement, and no returned location lies on a line that starts with --.
C25_ResolvesToCreateStatement ==
  (QSql /\ WSql.found /\ SqlDeclaringLines(sqlText, WSql.word) # {} /\ SqlUseSite) =>
    /\ ~last.result.resolver.out.isNull
    /\ \A l \in SqlDeclaringLines(sqlText, WSql.word) :
         SqlTokenLocation(last.doc, sqlText, l, 3) \in Items(last.result.resolver.out)
    /\ \A loc \in Items(last.result.resolver.out) :
         AllTexts[sqlText][loc.range.start.line + 1][1] # "--"

\* the token <<line, token>> under the cursor of the returning call
SqlQueried ==
  <<last.pos.line + 1,
    CHOOSE j \in 1..Len(AllTexts[sqlText][last.pos.line + 1]) :
      TokCol(AllTexts[sqlText][last.pos.line + 1], j) = WSql.range.start.character>>

\* some statement CREATE TABLE / CREATE TYPE of the text, commented out or
\* not, has a name that begins with the word, in any case
SqlNameBeginsWith(t, word) ==
  \E l \in 1..Len(AllTexts[t]) : \E j \in 1..Len(AllTexts[t][l]) :
    /\ j + 2 <= Len(AllTexts[t][l])
    /\ toLowerCase(AllTexts[t][l][j]) = "create"
    /\ toLowerCase(AllTexts[t][l][j + 1]) \in CreateKinds
    /\ \E suf \in Affixes : toLowerCase(word) \o suf = toLowerCase(AllTexts[t][l][j + 2])

\* resolver, scanner and orchestrator all found nothing
SqlAllEmpty ==
  /\ last.result.resolver.out.isNull
  /\ last.result.scanned
  /\ last.result.refs = << >>
  /\ IsNullResult(last.result)

\* neither memo had an entry for the word when the call began
SqlFresh ==
  /\ ~MapHas(last.before.definitionCache, DefinitionKey(last.doc, WSql.word))
  /\ ~MapHas(last.before.referenceCache, ReferenceKey(last.doc, WSql.word, TRUE))

C27_IndexOnlyGrows ==
  [][\A d \in IndexedDocs :
       /\ d \in IndexedDocs'
       /\ \/ Slot(d)' = Slot(d)
          \/ /\ parse(docText'[d]).ok
             /\ Slot(d)' = EntryTable[d][docText'[d]]]_vars

\* the three files of the workspace are indexed and the update that just ran
\* on one of them, which had a slot, failed to parse
C27_Witness ==
  /\ Updating
  /\ ~parse(docText[last.doc]).ok
  /\ last.before.present
  /\ Cardinality(IndexedDocs) = Len(findFiles)

(***************************************************************************)
(* The startup scan when every discovered file can be opened.  The promises *)
(* of findFiles and of openTextDocument resolve, and the event loop runs a  *)
(* continuation that is ready after finitely many other handlers: the two   *)
(* steps of initializeCache are strongly fair, the return of a call weakly. *)
(***************************************************************************)
NextStartup ==
  \/ \E d \in Docs : \E t \in DocTexts(d) : OnDidChangeTextDocument(d, t)
  \/ \E d \in Docs : OnDidOpenTextDocument(d)
  \/ InitializeFindFiles
  \/ InitializeOpenDocument
  \/ Return

SpecStartup ==
  /\ Init
  /\ [][NextStartup]_vars
  /\ SF_vars(InitializeFindFiles)
  /\ SF_vars(InitializeOpenDocument)
  /\ WF_vars(Return)

\* the loop of initializeCache has ended
ScanDone == initPc = Len(findFiles) + 1

\* the scan has ended and every enumerated file whose current text parses has a slot
StartupComplete ==
  /\ ScanDone
  /\ \A n \in 1..Len(findFiles) :
       parse(docText[findFiles[n]]).ok => findFiles[n] \in IndexedDocs

\* C28: when every discovered file can be opened, the startup scan
\* eventually ends, and from then on every file of the workspace matching
\* the glob whose text parses has a slot, whatever open and change events
\* were interleaved with the scan or follow it.
C28_StartupEventuallyComplete == <>[]StartupComplete

\* after the scan ended, a change event gave its first slot to a file whose
\* text did not parse when the scan opened it
C28_Witness ==
  /\ ScanDone
  /\ Updating
  /\ last.event = "change"
  /\ ~last.before.present
  /\ last.doc \in IndexedDocs
  /\ \E n \in 1..Len(findFiles) : findFiles[n] = last.doc

(***************************************************************************)
(* Outline: GraphQLDocumentSymbolProvider.provideDocumentSymbols           *)
(***************************************************************************)
\* an offset that was not given (undefined)
NoOffset == 0 - 1

\* createSymbol: the selection range falls back to the start of the range
createSymbol(t, name, detail, kind, rangeStart, rangeEnd, selectionStart, selectionEnd) ==
  [name |-> name, detail |-> detail, kind |-> kind,
   range |-> Range(t, rangeStart, rangeEnd),
   selectionRange |->
     Range(t, IF selectionStart = NoOffset THEN rangeStart ELSE selectionStart,
              IF selectionEnd = NoOffset THEN rangeStart ELSE selectionEnd),
   children |-> << >>]

\* kindToSymbolKind[node.kind] ?? kindToSymbolKind[Kind.OBJECT_TYPE_DEFINITION]
kindToSymbolKind(kind) ==
  CASE kind = "InterfaceTypeDefinition" -> "Interface"
    [] kind = "EnumTypeDefinition" -> "Enum"
    [] OTHER -> "Class"

\* the offset of the brace that opens the body of a definition, its end
\* when it has no body
OpenBrace(t, def) ==
  LET at == {i \in 1..Len(LexTable[t]) :
               /\ LexTable[t][i].s = "{"
               /\ LexTable[t][i].start >= def.start
               /\ LexTable[t][i].end <= def.end}
  IN  IF at = {} THEN def.end ELSE LexTable[t][Least(at)].start

\* the names inside the body of a definition: the values of an enumeration,
\* the fields of a selection set
BodyNames(t, def) ==
  SelectSeq(LexTable[t],
            LAMBDA tok : IsWord(tok.s) /\ tok.start > OpenBrace(t, def) /\ tok.end < def.end)

\* the token of the type of the field definition whose name token is given
FieldTypeToken(t, nameTok) ==
  LexTable[t][(CHOOSE i \in 1..Len(LexTable[t]) : LexTable[t][i].start = nameTok.start) + 2]

\* convertSelectionSet: one child for every field of the selection set
convertSelectionSet(t, def) ==
  [k \in 1..Len(BodyNames(t, def)) |->
     createSymbol(t, BodyNames(t, def)[k].s, "", "Field",
                  BodyNames(t, def)[k].start, BodyNames(t, def)[k].end,
                  BodyNames(t, def)[k].start, BodyNames(t, def)[k].end)]

\* handleOperation
handleOperation(t, def) ==
  [createSymbol(t, IF def.name = NoTok THEN "anonymous" ELSE def.name.s,
                IF TokAt(LexTable[t], CHOOSE i \in 1..Len(LexTable[t]) :
                                        LexTable[t][i].start = def.start) = "{"
                THEN "query"
                ELSE TokAt(LexTable[t], CHOOSE i \in 1..Len(LexTable[t]) :
                                          LexTable[t][i].start = def.start),
                "Class", def.start, def.end,
                IF def.name = NoTok THEN NoOffset ELSE def.name.start,
                IF def.name = NoTok THEN NoOffset ELSE def.name.end)
     EXCEPT !.children = convertSelectionSet(t, def)]

\* handleFragment
handleFragment(t, def) ==
  [createSymbol(t, def.name.s, "fragment on " \o def.typeCondition, "Class",
                def.start, def.end, def.name.start, def.name.end)
     EXCEPT !.children = convertSelectionSet(t, def)]

\* handleTypeDefinition: a child for every field, and for every value of an enumeration
handleTypeDefinition(t, def) ==
  [createSymbol(t, def.name.s, "", kindToSymbolKind(def.kind),
                def.start, def.end, def.name.start, def.name.end)
     EXCEPT !.children =
       IF def.hasFields
       THEN [k \in 1..Len(def.fields) |->
               createSymbol(t, def.fields[k].s, FieldTypeToken(t, def.fields[k]).s, "Field",
                            def.fields[k].start, FieldTypeToken(t, def.fields[k]).end,
                            def.fields[k].start, def.fields[k].end)]
       ELSE IF def.kind = "EnumTypeDefinition"
       THEN [k \in 1..Len(BodyNames(t, def)) |->
               createSymbol(t, BodyNames(t, def)[k].s, "enum value", "EnumMember",
                            BodyNames(t, def)[k].start, BodyNames(t, def)[k].end,
                            BodyNames(t, def)[k].start, BodyNames(t, def)[k].end)]
       ELSE << >>]

\* the switch on def.kind
SymbolOf(t, def) ==
  CASE def.kind = "OperationDefinition" -> handleOperation(t, def)
    [] def.kind = "FragmentDefinition" -> handleFragment(t, def)
    [] OTHER -> handleTypeDefinition(t, def)

\* (variant of provideDocumentSymbols without the catch: the syntax error of
\* parse is the error of the call)
provideDocumentSymbolsNoCatch(t) ==
  IF ~parse(t).ok THEN [fault |-> TRUE, symbols |-> << >>]
  ELSE [fault |-> FALSE,
        symbols |-> [i \in 1..Len(parse(t).definitions) |-> SymbolOf(t, parse(t).definitions[i])]]

\* provideDocumentSymbols: the empty list when parse throws, otherwise one
\* symbol for every definition
provideDocumentSymbols(t) ==
  IF ~parse(t).ok THEN [fault |-> FALSE, symbols |-> << >>]
  ELSE [fault |-> FALSE,
        symbols |-> [i \in 1..Len(parse(t).definitions) |-> SymbolOf(t, parse(t).definitions[i])]]

SymbolsTable == [t \in TextIds |-> provideDocumentSymbols(t)]

\* the editor asks for the outline of a document of graphqlDocumentSelector
ProvideDocumentSymbols(d) ==
  /\ providers = "GraphQL"
  /\ last = Idle
  /\ isGraphQLFile(d)
  /\ last' = [op |-> "provideDocumentSymbols", provider |-> "GraphQL", doc |-> d,
              result |-> SymbolsTable[docText[d]]]
  /\ UNCHANGED <<docText, definitionsCache, initPc, lastParsed>>
  /\ UNCHANGED <<sqlVars, earlierVars>>

InitOutline ==
  /\ docText \in [Docs -> UNION {OutlineTexts(d) : d \in Docs}]
  /\ \A d \in Docs : docText[d] \in OutlineTexts(d)
  /\ definitionsCache = << >>
  /\ initPc = 0
  /\ last = Idle
  /\ lastParsed = [d \in Docs |-> NoText]
  /\ providers = "GraphQL"
  /\ sqlText = Least(SqlTexts)
  /\ definitionCache = EmptyMemo
  /\ referenceCache = EmptyMemo
  /\ EarlierEmpty

NextOutline ==
  \/ \E d \in Docs : \E t \in OutlineTexts(d) : OnDidChangeTextDocument(d, t)
  \/ \E d \in Docs : OnDidOpenTextDocument(d)
  \/ /\ providers = "GraphQL"
     /\ last = Idle
     /\ \E d \in Docs : \E pos \in PositionsTable[docText[d]] : GoToDefinition(d, pos, NoIO)
  \/ \E d \in Docs : ProvideDocumentSymbols(d)
  \/ Return

\* the outline and go to definition on documents whose text may fail to parse
SpecOutline == InitOutline /\ [][NextOutline]_vars

\* the call returning is a request of the outline
OutlineCall == last.op = "provideDocumentSymbols"

\* the current text of the document of the returning call does not parse
Unparsable == ~parse(docText[last.doc]).ok

\* C29: a parse failure of the text of the current document is recovered
\* locally and gives an empty result without raising: the outline is the
\* empty list and the field lookup of a resolution returns nothing; the
\* failed update leaves the slot of the document as it was, and that slot
\* goes on answering the type and fragment lookups of the document.
C29_ParseFailureIsLocal ==
  /\ (OutlineCall /\ Unparsable) =>
       (~last.result.fault /\ last.result.symbols = << >>)
  /\ (Updating /\ Unparsable) => SlotIn(definitionsCache, last.doc) = last.before
  /\ (Q /\ Unparsable /\ W.found) =>
       /\ findFieldDefinition(definitionsCache, W.word, last.doc, docText[last.doc], last.pos) = Null
       /\ "field" \in {last.result.resolver.steps[k] : k \in 1..Len(last.result.resolver.steps)}
            => last.result.resolver.out = Null
       /\ (CacheHas(definitionsCache, last.doc)
            /\ W.word \in DOMAIN Slot(last.doc).typeDefinitions)
            => last.result.resolver.out = List(<<Slot(last.doc).typeDefinitions[W.word]>>)
       /\ (/\ CacheHas(definitionsCache, last.doc)
           /\ TypeDocs(W.word) = {}
           /\ W.word \in DOMAIN Slot(last.doc).fragmentDefinitions)
            => last.result.resolver.out = List(<<Slot(last.doc).fragmentDefinitions[W.word]>>)

\* go to definition on User in a document whose text no longer parses and
\* whose slot, from its earlier text, declares the fragment User: the slot answers
C29_Witness ==
  /\ Q /\ Unparsable /\ W.found /\ W.word = "User"
  /\ CacheHas(definitionsCache, last.doc)
  /\ TypeDocs(W.word) = {}
  /\ W.word \in DOMAIN Slot(last.doc).fragmentDefinitions
  /\ last.result.kind = "definition"

(***************************************************************************)
(* The earlier version of GraphQLDefinitionProvider: three caches, one per *)
(* kind of declaration, each a Map from a document to its table            *)
(***************************************************************************)
\* for (const [uri, typeMap] of cache): the other documents, in insertion order
RECURSIVE EarlierSearchOthers(_, _, _, _)
EarlierSearchOthers(mapCache, key, currentUri, i) ==
  IF i > Len(mapCache) THEN << >>
  ELSE (IF mapCache[i].uri # currentUri /\ MapHas(mapCache[i].entry, key)
        THEN <<mapCache[i].entry[key]>> ELSE << >>)
       \o EarlierSearchOthers(mapCache, key, currentUri, i + 1)

\* if (cache.has(currentUri)) { if (table.has(key)) return [it] }, then the others
EarlierSameFileFirst(mapCache, key, currentUri) ==
  IF CacheHas(mapCache, currentUri) /\ MapHas(CacheGet(mapCache, currentUri), key)
  THEN List(<<CacheGet(mapCache, currentUri)[key]>>)
  ELSE IF Len(EarlierSearchOthers(mapCache, key, currentUri, 1)) > 0
  THEN List(EarlierSearchOthers(mapCache, key, currentUri, 1))
  ELSE Null

EarlierFindTypeDefinition(types, typeName, currentUri) ==
  EarlierSameFileFirst(types, typeName, currentUri)

EarlierFindFragmentDefinition(fragments, fragmentName, currentUri) ==
  EarlierSameFileFirst(fragments, fragmentName, currentUri)

EarlierFindFieldDefinition(fields, fieldName, uri, text, pos) ==
  IF ~getParentTypeName(text, pos).found THEN Null
  ELSE EarlierSameFileFirst(fields, getParentTypeName(text, pos).name \o "." \o fieldName, uri)

\* provideDefinition of the earlier version: type, then fragment, then field
EarlierProvideDefinition(types, fragments, fields, uri, text, pos) ==
  IF ~wordRangeAt(text, pos).found THEN Null
  ELSE IF ~EarlierFindTypeDefinition(types, wordRangeAt(text, pos).word, uri).isNull
  THEN EarlierFindTypeDefinition(types, wordRangeAt(text, pos).word, uri)
  ELSE IF ~EarlierFindFragmentDefinition(fragments, wordRangeAt(text, pos).word, uri).isNull
  THEN EarlierFindFragmentDefinition(fragments, wordRangeAt(text, pos).word, uri)
  ELSE EarlierFindFieldDefinition(fields, wordRangeAt(text, pos).word, uri, text, pos)

\* (variant of EarlierStore that does not write the cache of fragments)
EarlierStoreNoFragments(caches, uri, text) ==
  [typeDefinitionsCache |->
     CacheSet(caches.typeDefinitionsCache, uri, EntryTable[uri][text].typeDefinitions),
   fieldDefinitionsCache |->
     CacheSet(caches.fieldDefinitionsCache, uri, EntryTable[uri][text].fieldDefinitions),
   fragmentDefinitionsCache |-> caches.fragmentDefinitionsCache]

\* the three set calls that end updateCacheForDocument; the tables are
\* built by the same loop as in the later version
EarlierStore(caches, uri, text) ==
  [typeDefinitionsCache |->
     CacheSet(caches.typeDefinitionsCache, uri, EntryTable[uri][text].typeDefinitions),
   fieldDefinitionsCache |->
     CacheSet(caches.fieldDefinitionsCache, uri, EntryTable[uri][text].fieldDefinitions),
   fragmentDefinitionsCache |->
     CacheSet(caches.fragmentDefinitionsCache, uri, EntryTable[uri][text].fragmentDefinitions)]

\* updateCacheForDocument of the earlier version
EarlierUpdateCacheForDocument(caches, uri, text) ==
  IF ~isGraphQLFile(uri) THEN caches
  ELSE IF ~parse(text).ok THEN caches
  ELSE EarlierStore(caches, uri, text)

\* the three caches as they are
EarlierCaches ==
  [typeDefinitionsCache |-> typeDefinitionsCache,
   fieldDefinitionsCache |-> fieldDefinitionsCache,
   fragmentDefinitionsCache |-> fragmentDefinitionsCache]

\* the listeners of the earlier version run on an event
EarlierListener(d, t) ==
  /\ typeDefinitionsCache' =
       (IF isGraphQLFile(d) THEN EarlierUpdateCacheForDocument(EarlierCaches, d, t)
        ELSE EarlierCaches).typeDefinitionsCache
  /\ fieldDefinitionsCache' =
       (IF isGraphQLFile(d) THEN EarlierUpdateCacheForDocument(EarlierCaches, d, t)
        ELSE EarlierCaches).fieldDefinitionsCache
  /\ fragmentDefinitionsCache' =
       (IF isGraphQLFile(d) THEN EarlierUpdateCacheForDocument(EarlierCaches, d, t)
        ELSE EarlierCaches).fragmentDefinitionsCache

\* onDidChangeTextDocument, delivered to the listeners of both versions
BothOnDidChangeTextDocument(d, t) ==
  /\ providers = "GraphQL"
  /\ last = Idle
  /\ docText' = [docText EXCEPT ![d] = t]
  /\ definitionsCache' =
       IF isGraphQLFile(d) THEN updateCacheForDocument(definitionsCache, d, t)
       ELSE definitionsCache
  /\ EarlierListener(d, t)
  /\ lastParsed' = NoteParsed(lastParsed, d, t)
  /\ last' = [op |-> "update", event |-> "change", doc |-> d,
              before |-> SlotIn(definitionsCache, d),
              cacheBefore |-> definitionsCache]
  /\ UNCHANGED initPc
  /\ UNCHANGED sqlVars

\* onDidOpenTextDocument, delivered to the listeners of both versions
BothOnDidOpenTextDocument(d) ==
  /\ providers = "GraphQL"
  /\ last = Idle
  /\ definitionsCache' =
       IF isGraphQLFile(d) THEN updateCacheForDocument(definitionsCache, d, docText[d])
       ELSE definitionsCache
  /\ EarlierListener(d, docText[d])
  /\ lastParsed' = NoteParsed(lastParsed, d, docText[d])
  /\ last' = [op |-> "update", event |-> "open", doc |-> d,
              before |-> SlotIn(definitionsCache, d),
              cacheBefore |-> definitionsCache]
  /\ UNCHANGED <<docText, initPc>>
  /\ UNCHANGED sqlVars

\* the same call of provideDefinition on both versions
BothProvideDefinition(d, pos) ==
  /\ providers = "GraphQL"
  /\ last = Idle
  /\ isGraphQLFile(d)
  /\ last' = [op |-> "provideDefinition", provider |-> "GraphQL and earlier",
              doc |-> d, pos |-> pos,
              result |-> provideDefinition(definitionsCache, d, docText[d], pos).out,
              earlier |-> EarlierProvideDefinition(typeDefinitionsCache, fragmentDefinitionsCache,
                                                   fieldDefinitionsCache, d, docText[d], pos)]
  /\ UNCHANGED <<docText, definitionsCache, initPc, lastParsed>>
  /\ UNCHANGED <<sqlVars, earlierVars>>

NextEarlier ==
  \/ \E d \in Docs : \E t \in DocTexts(d) : BothOnDidChangeTextDocument(d, t)
  \/ \E d \in Docs : BothOnDidOpenTextDocument(d)
  \/ \E d \in Docs : \E pos \in PositionsTable[docText[d]] : BothProvideDefinition(d, pos)
  \/ Return

\* the two versions of the provider side by side on the same events and calls
SpecEarlier == Init /\ [][NextEarlier]_vars

\* the call returning was made on both versions
BothCall == last.op = "provideDefinition" /\ last.provider = "GraphQL and earlier"

\* C30: on the same sequence of open and change events, failed parses
\* included, every call of provideDefinition returns the same result from
\* the provider with the unified cache and from the earlier one with three
\* caches: null from both, or the same locations in the same order.
C30_SameAsEarlierVersion == BothCall => last.result = last.earlier

\* both versions returned the same two locations, found in two other
\* documents, while some indexed document no longer parses
C30_Witness ==
  /\ BothCall
  /\ ~last.result.isNull
  /\ Len(last.result.items) = 2
  /\ last.result = last.earlier
  /\ \E d \in IndexedDocs : ~parse(docText[d]).ok

(***************************************************************************)
(* The startup scan interleaved with the listeners                         *)
(***************************************************************************)
\* the update returning was made by the startup scan on a document that
\* an open or change event had indexed before the scan reached it
ScanAfterEvent ==
  /\ Updating
  /\ last.event = "initialize"
  /\ last.before.present

\* C31: when the startup scan reaches a document that an event has already
\* indexed, it never puts older declarations in the slot: the slot holds the
\* declarations of the text the document has at that moment when that text
\* parses, and is left as the event wrote it when it does not.
C31_ScanNeverRegresses ==
  ScanAfterEvent =>
    Slot(last.doc) = IF parse(docText[last.doc]).ok
                     THEN EntryTable[last.doc][docText[last.doc]]
                     ELSE last.before.entry

\* the scan reached a document that an event had indexed with declarations
\* and whose text, not the first of its texts, parses
C31_Witness ==
  /\ ScanAfterEvent
  /\ parse(docText[last.doc]).ok
  /\ docText[last.doc] # Least(DocTexts(last.doc))
  /\ DOMAIN Slot(last.doc).typeDefinitions # {}

\* the documents that are GraphQL files: language id graphql, or a file name
\* ending in .graphql, .gql or .graphqls
GraphQLFiles ==
  {d \in Docs : \/ DocInfo[d].languageId = "graphql"
                \/ DocInfo[d].ext \in {".graphql", ".gql", ".graphqls"}}

\* C32: an open or change event for a document that is not a GraphQL file
\* leaves the whole index as it was, and every key of the index is a
\* GraphQL file.
C32_OtherFilesLeaveIndex ==
  /\ (Updating /\ last.doc \notin GraphQLFiles) => definitionsCache = last.cacheBefore
  /\ IndexedDocs \subseteq GraphQLFiles

\* a change event of the text file, whose text parses as GraphQL, has
\* returned while the three GraphQL files are indexed
C32_Witness ==
  /\ Updating
  /\ last.event = "change"
  /\ last.doc \notin GraphQLFiles
  /\ parse(docText[last.doc]).ok
  /\ Cardinality(IndexedDocs) = Len(findFiles)

\* initializeCache has ended: its loop ran to the end, or its promise rejected
InitializationEnded == initPc = Len(findFiles) + 1 \/ initPc = 0 - 1

\* the discovered files whose text parses and that have no slot
ParsableNotIndexed ==
  {n \in 1..Len(findFiles) :
     parse(docText[findFiles[n]]).ok /\ findFiles[n] \notin IndexedDocs}

\* C35: a discovered file that fails to open does not stop the startup scan.
\* At most one open fails in a run, so when initialisation has ended the only
\* discovered file whose text parses and that may lack a slot is that file.
C35_FailedOpenDoesNotStopScan ==
  InitializationEnded => Cardinality(ParsableNotIndexed) <= 1

(***************************************************************************)
(* The memo of SQLDefinitionProvider across edits of the document          *)
(***************************************************************************)
\* the call returning reached findDefinitions: the cursor was on a word and
\* not on the name of a declaration of its line
SqlLookedUp ==
  /\ QSql
  /\ WSql.found
  /\ ~IsOnDefinitionTable[sqlText][last.pos]

\* C33: whatever edits and calls came before, the locations
\* SQLDefinitionProvider returns for a word are the name tokens of the
\* CREATE TABLE / CREATE TYPE statements that the text of the document has
\* when the call is made, never those of an earlier text.
C33_DefinitionsOfCurrentText ==
  SqlLookedUp =>
    last.result.resolver.out =
      IF Len(SqlDefinitionsTable[last.doc][sqlText][WSql.word]) > 0
      THEN List(SqlDefinitionsTable[last.doc][sqlText][WSql.word])
      ELSE Null

(***************************************************************************)
(* The cursor on the name a CREATE statement declares                      *)
(***************************************************************************)
\* the cursor of the returning call is on the name of the CREATE TABLE /
\* CREATE TYPE statement of its line
SqlOnDeclaredName ==
  /\ QSql
  /\ WSql.found
  /\ (last.pos.line + 1) \in SqlDeclaringLines(sqlText, WSql.word)
  /\ SqlQueried[2] = 3

\* C34: with the cursor on the declared name in its CREATE TABLE / CREATE
\* TYPE line, SQLDefinitionProvider returns null and its memo is as it was
\* before the call, and the fallback answers with the links to the
\* references of the word in the text, the declaring occurrence among them.
C34_OnDeclaredNameFallsBack ==
  SqlOnDeclaredName =>
    /\ last.result.resolver.out.isNull
    /\ definitionCache = last.before.definitionCache
    /\ last.result.scanned
    /\ last.result.kind = "links"
    /\ last.result.out =
         List(SqlToLinks(WSql.range, SqlReferencesTable[last.doc][sqlText][WSql.word]))
    /\ SqlTokenLocation(last.doc, sqlText, last.pos.line + 1, 3) \in Items([items |-> last.result.refs])

(***************************************************************************)
(* clearCache of the two SQL providers.  Nothing in the extension calls    *)
(* it; it is a public method and is modelled as a call that can be made on *)
(* either provider for either document at any time.                        *)
(***************************************************************************)
\* document.getText() of a SQL document: the older copy is not edited
SqlTextOf(d) == IF d \in SqlDocs THEN sqlText ELSE TextId(SUsers)

\* what can follow `${uri}-` in a key of a memo: a word, with the flag of a
\* reference key or without, after the rest of the name of the older copy
\* or after nothing
KeyRests ==
  {u \o w \o f : u \in {"", "old-"}, w \in Words, f \in {"", "-true", "-false"}}

\* key.startsWith(prefix)
StartsWith(key, prefix) == \E rest \in KeyRests : prefix \o rest = key

\* clearCache: for (const key of cache.keys()) if (key.startsWith(prefix)) cache.delete(key)
clearCache(cache, uri) ==
  [key \in {k \in DOMAIN cache : ~StartsWith(k, uri \o "-")} |-> cache[key]]

\* go to definition on the SQL fallback provider in either SQL document
SqlGoToDefinitionIn(d, pos) ==
  /\ providers = "SQL"
  /\ last = Idle
  /\ last' = [op |-> "provideDefinition", provider |-> "SQL documents",
              doc |-> d, pos |-> pos,
              before |-> [definitionCache |-> definitionCache,
                          referenceCache |-> referenceCache],
              result |-> [f \in {"resolver", "scanned", "refs", "kind", "out"} |->
                            SqlFallbackProvideDefinition(definitionCache, referenceCache,
                                                         d, SqlTextOf(d), pos)[f]]]
  /\ definitionCache' =
       SqlFallbackProvideDefinition(definitionCache, referenceCache,
                                    d, SqlTextOf(d), pos).definitionCache
  /\ referenceCache' =
       SqlFallbackProvideDefinition(definitionCache, referenceCache,
                                    d, SqlTextOf(d), pos).referenceCache
  /\ UNCHANGED <<docText, definitionsCache, initPc, lastParsed, providers, sqlText>>
  /\ UNCHANGED earlierVars

\* SQLDefinitionProvider.clearCache(document)
SqlDefinitionClearCache(d) ==
  /\ providers = "SQL"
  /\ last = Idle
  /\ definitionCache' = clearCache(definitionCache, d)
  /\ last' = [op |-> "clearCache", provider |-> "SQLDefinitionProvider", doc |-> d,
              before |-> definitionCache]
  /\ UNCHANGED <<docText, definitionsCache, initPc, lastParsed, providers, sqlText>>
  /\ UNCHANGED <<referenceCache, earlierVars>>

\* SQLReferenceProvider.clearCache(document)
SqlReferenceClearCache(d) ==
  /\ providers = "SQL"
  /\ last = Idle
  /\ referenceCache' = clearCache(referenceCache, d)
  /\ last' = [op |-> "clearCache", provider |-> "SQLReferenceProvider", doc |-> d,
              before |-> referenceCache]
  /\ UNCHANGED <<docText, definitionsCache, initPc, lastParsed, providers, sqlText>>
  /\ UNCHANGED <<definitionCache, earlierVars>>

NextSqlClear ==
  \/ \E t \in SqlTexts : SqlChangeText(t)
  \/ \E d \in SqlUris : \E pos \in SqlCursors[SqlTextOf(d)] : SqlGoToDefinitionIn(d, pos)
  \/ \E d \in SqlUris : SqlDefinitionClearCache(d)
  \/ \E d \in SqlUris : SqlReferenceClearCache(d)
  \/ Return

\* the two SQL providers over two documents, with calls of clearCache
SpecSqlClear == InitSql /\ [][NextSqlClear]_vars

\* the call returning is a clearCache
SqlCleared == last.op = "clearCache"

\* the memo that the returning clearCache worked on, as it is now
ClearedMemo ==
  IF last.provider = "SQLDefinitionProvider" THEN definitionCache ELSE referenceCache

\* the keys under which the providers memoise for document d
SqlKeysOf(d) ==
  {DefinitionKey(d, w) : w \in Words}
    \cup {ReferenceKey(d, w, f) : w \in Words, f \in BOOLEAN}

\* C36: clearCache(D) of either SQL provider removes every entry memoised
\* for document D and leaves every entry memoised for another document as
\* it was, also when the name of the other document begins with the name of
\* D followed by "-".
C36_ClearCacheIsPerDocument ==
  SqlCleared =>
    /\ \A k \in SqlKeysOf(last.doc) : ~MapHas(ClearedMemo, k)
    /\ \A e \in SqlUris \ {last.doc} : \A k \in SqlKeysOf(e) :
         MapHas(last.before, k) => (MapHas(ClearedMemo, k) /\ ClearedMemo[k] = last.before[k])


====
